---------------------------- MODULE Spec2Model ----------------------------
(***************************************************************************)
(* Verification model of the deck-builder backend.                         *)
(*                                                                         *)
(*   src/src/services/inventory-sync.js   syncInventory and its parsers    *)
(*   src/unnamed/part_000                 schema, matchDeckList, search    *)
(*   src/unnamed/part_001, routes/api.js  who starts a sync                *)
(*                                                                         *)
(* Text is a sequence of one-character strings, so that trim, lower-case   *)
(* and the regular expressions of the source are computed, not assumed.    *)
(* A nullable value is a tuple: <<>> is null, <<x>> is the value x.         *)
(***************************************************************************)
EXTENDS Integers, Sequences, FiniteSets, TLC

---------------------------------------------------------------------------
(* Nullable values *)

Null == <<>>

Some(x) == <<x>>

IsNull(o) == o = <<>>

---------------------------------------------------------------------------
(* Text: String.prototype.trim / toLowerCase as the parsers use them *)

UpperChars == <<"A","B","C","D","E","F","G","H","I","J","K","L","M",
                "N","O","P","Q","R","S","T","U","V","W","X","Y","Z">>

LowerChars == <<"a","b","c","d","e","f","g","h","i","j","k","l","m",
                "n","o","p","q","r","s","t","u","v","w","x","y","z">>

DigitChars == <<"0","1","2","3","4","5","6","7","8","9">>

IsSpace(c) == c = " "

IsDigit(c) == \E i \in 1..10 : DigitChars[i] = c

DigitValue(c) == (CHOOSE i \in 1..10 : DigitChars[i] = c) - 1

toLowerChar(c) ==
  IF \E i \in 1..26 : UpperChars[i] = c
  THEN LowerChars[CHOOSE i \in 1..26 : UpperChars[i] = c]
  ELSE c

toLowerCase(s) == [i \in 1..Len(s) |-> toLowerChar(s[i])]

\* number of whitespace characters at the start of s
LeadingSpaces(s) ==
  IF \A i \in 1..Len(s) : IsSpace(s[i]) THEN Len(s)
  ELSE (CHOOSE i \in 1..Len(s) : ~IsSpace(s[i]) /\ \A j \in 1..(i-1) : IsSpace(s[j])) - 1

\* number of whitespace characters at the end of s
TrailingSpaces(s) ==
  IF \A i \in 1..Len(s) : IsSpace(s[i]) THEN Len(s)
  ELSE Len(s) - (CHOOSE i \in 1..Len(s) : ~IsSpace(s[i]) /\ \A j \in (i+1)..Len(s) : IsSpace(s[j]))

trim(s) ==
  IF \A i \in 1..Len(s) : IsSpace(s[i]) THEN <<>>
  ELSE SubSeq(s, LeadingSpaces(s) + 1, Len(s) - TrailingSpaces(s))

---------------------------------------------------------------------------
(* inventory-sync.js: the three parsers *)

\* does r match  \s*\(([^)]+)\)\s*$  (the tail of the title pattern)
TitleTailMatches(r) ==
  LET open == LeadingSpaces(r) + 1 IN
  /\ open <= Len(r)
  /\ r[open] = "("
  /\ \E close \in (open + 2)..Len(r) :
       /\ r[close] = ")"
       /\ \A j \in (open + 1)..(close - 1) : r[j] # ")"
       /\ \A j \in (close + 1)..Len(r) : IsSpace(r[j])

\* the text between the parentheses of a matching tail
TitleTailGroup(r) ==
  LET open  == LeadingSpaces(r) + 1
      close == CHOOSE c \in (open + 2)..Len(r) :
                 /\ r[c] = ")"
                 /\ \A j \in (open + 1)..(c - 1) : r[j] # ")"
  IN SubSeq(r, open + 1, close - 1)

\* title.match(/^(.+?)\s*\(([^)]+)\)\s*$/): the lazy first group is the
\* shortest non-empty prefix after which the tail matches
parseProductTitle(title) ==
  LET n    == Len(title)
      Cuts == {k \in 1..n : TitleTailMatches(SubSeq(title, k + 1, n))}
  IN IF Cuts # {}
     THEN LET k == CHOOSE c \in Cuts : \A d \in Cuts : c <= d IN
          [cardName |-> trim(SubSeq(title, 1, k)),
           setName  |-> Some(trim(TitleTailGroup(SubSeq(title, k + 1, n))))]
     ELSE [cardName |-> trim(title), setName |-> Null]

RECURSIVE parseInt(_)
parseInt(digits) ==
  IF digits = <<>> THEN 0
  ELSE 10 * parseInt(SubSeq(digits, 1, Len(digits) - 1)) + DigitValue(digits[Len(digits)])

\* number of digits at the end of s
TrailingDigits(s) ==
  IF \A i \in 1..Len(s) : IsDigit(s[i]) THEN Len(s)
  ELSE Len(s) - (CHOOSE i \in 1..Len(s) : ~IsDigit(s[i]) /\ \A j \in (i+1)..Len(s) : IsDigit(s[j]))

\* gid.match(/\/(\d+)$/): a slash followed by digits up to the end
extractNumericId(gid) ==
  LET d == TrailingDigits(gid) IN
  IF d >= 1 /\ Len(gid) > d /\ gid[Len(gid) - d] = "/"
  THEN Some(parseInt(SubSeq(gid, Len(gid) - d + 1, Len(gid))))
  ELSE Null

\* JavaScript truthiness of a nullable number: !id is true for null and for 0
Falsy(id) == IsNull(id) \/ id[1] = 0

STR_condition == <<"c","o","n","d","i","t","i","o","n">>

STR_conditions == <<"c","o","n","d","i","t","i","o","n","s">>

STR_finish == <<"f","i","n","i","s","h">>

STR_style == <<"s","t","y","l","e">>

STR_type == <<"t","y","p","e">>

\* the loop of parseVariantOptions over selectedOptions[from..], last one wins
RECURSIVE ScanOptions(_, _, _)
ScanOptions(options, from, acc) ==
  IF from > Len(options) THEN acc
  ELSE LET name  == toLowerCase(options[from].name)
           value == options[from].value
           next  == IF name = STR_condition \/ name = STR_conditions
                    THEN [acc EXCEPT !.condition = Some(value)]
                    ELSE IF name = STR_finish \/ name = STR_style \/ name = STR_type
                    THEN [acc EXCEPT !.finish = Some(value)]
                    ELSE acc
       IN ScanOptions(options, from + 1, next)

\* selectedOptions is a nullable list of {name, value}
parseVariantOptions(variant) ==
  IF IsNull(variant.selectedOptions)
  THEN [condition |-> Null, finish |-> Null]
  ELSE ScanOptions(variant.selectedOptions[1], 1, [condition |-> Null, finish |-> Null])

---------------------------------------------------------------------------
(* Bounds of the model *)

\* syncInventory invocations per behaviour
MaxRuns == 2

\* products in an upstream catalog
MaxCatalogLen == 2

\* products per page (the query asks for 250 per page)
PageSize == 1

---------------------------------------------------------------------------
(* The relational store: part_000, initializeDatabase.  A table is a set of
   rows.  The SERIAL id and the two timestamps of a row are left out: no
   statement of the program reads them. *)

EmptyTables == [products |-> {}, variants |-> {}]

ProductIds(t) == {r.shopify_product_id : r \in t.products}

VariantIds(t) == {r.shopify_variant_id : r \in t.variants}

\* INSERT INTO products ... ON CONFLICT (shopify_product_id) DO UPDATE SET
\* every other column
UpsertProductRow(t, row) ==
  [t EXCEPT !.products =
     {r \in t.products : r.shopify_product_id # row.shopify_product_id} \cup {row}]

\* REFERENCES products(shopify_product_id): an inserted variant needs its parent
ForeignKeyHolds(t, row) == row.shopify_product_id \in ProductIds(t)

\* an upsert whose SET list also takes the parent id of the new row
UpsertVariantRow_Reparents(t, row) ==
  [t EXCEPT !.variants =
     {r \in t.variants : r.shopify_variant_id # row.shopify_variant_id} \cup {row}]

\* INSERT INTO variants ... ON CONFLICT (shopify_variant_id) DO UPDATE SET
\* condition, finish, price, quantity, sku: the parent id of an existing row
\* is not in the SET list
UpsertVariantRow(t, row) ==
  IF row.shopify_variant_id \in VariantIds(t)
  THEN [t EXCEPT !.variants =
          {IF r.shopify_variant_id = row.shopify_variant_id
           THEN [row EXCEPT !.shopify_product_id = r.shopify_product_id]
           ELSE r : r \in t.variants}]
  ELSE [t EXCEPT !.variants = t.variants \cup {row}]

\* a DELETE that leaves the variants of the deleted products behind
CascadeVariants_None(variants, deleted) == variants

\* ON DELETE CASCADE: the variants of the deleted products go with them
CascadeVariants(variants, deleted) ==
  {v \in variants : v.shopify_product_id \notin deleted}

\* a DELETE that removes nothing
DeleteStaleRows_KeepsAll(t, ids) == t

\* DELETE FROM products WHERE shopify_product_id != ALL(ids)
DeleteStaleRows(t, ids) ==
  LET deleted == {p \in ProductIds(t) : \A k \in 1..Len(ids) : p # ids[k]} IN
  [products |-> {r \in t.products : r.shopify_product_id \notin deleted},
   variants |-> CascadeVariants(t.variants, deleted)]

---------------------------------------------------------------------------
(* syncInventory: what it computes between two statements *)

STR_domain == <<"s","h","o","p">>

\* `https://${storeDomain}.com/products/${product.handle}`
productUrlOf(handle) ==
  <<"h","t","t","p","s",":","/","/">> \o STR_domain
    \o <<".","c","o","m","/","p","r","o","d","u","c","t","s","/">> \o handle

\* product.featuredImage?.url || null
imageUrlOf(product) ==
  IF IsNull(product.featuredImage) THEN Null ELSE Some(product.featuredImage[1])

\* the parameters of the product upsert (lines 176-197)
ProductRowOf(product) ==
  LET parsed == parseProductTitle(product.title) IN
  [shopify_product_id |-> extractNumericId(product.id)[1],
   title       |-> product.title,
   card_name   |-> parsed.cardName,
   set_name    |-> parsed.setName,
   handle      |-> product.handle,
   image_url   |-> imageUrlOf(product),
   product_url |-> productUrlOf(product.handle)]

\* the parameters of the variant upsert (lines 203-219)
VariantRowOf(product, variant) ==
  LET parsed == parseVariantOptions(variant) IN
  [shopify_variant_id |-> extractNumericId(variant.id)[1],
   shopify_product_id |-> extractNumericId(product.id)[1],
   condition |-> parsed.condition,
   finish    |-> parsed.finish,
   price     |-> variant.price,
   quantity  |-> variant.inventoryQuantity,
   sku       |-> variant.sku]

\* products.map(p => extractNumericId(p.id)).filter(id => id !== null)
RECURSIVE shopifyProductIds(_)
shopifyProductIds(products) ==
  IF products = <<>> THEN <<>>
  ELSE LET id == extractNumericId(Head(products).id) IN
       (IF IsNull(id) THEN <<>> ELSE <<id[1]>>) \o shopifyProductIds(Tail(products))

\* the statement after the two loops: the DELETE runs only for a non-empty id list
AfterLoops(products) ==
  IF Len(shopifyProductIds(products)) > 0 THEN "delete" ELSE "commit"

\* The next statement of the write phase, searching from product pi and,
\* inside it, from variant vi (vi = 0: the product's own upsert).  A product
\* or a variant whose numeric id is falsy is passed over (`continue`).
RECURSIVE Locate(_, _, _)
Locate(products, pi, vi) ==
  IF pi > Len(products)
  THEN [pc |-> AfterLoops(products), pi |-> pi, vi |-> 0]
  ELSE IF vi = 0
  THEN IF Falsy(extractNumericId(products[pi].id))
       THEN Locate(products, pi + 1, 0)
       ELSE [pc |-> "product", pi |-> pi, vi |-> 0]
  ELSE IF vi > Len(products[pi].variants)
  THEN Locate(products, pi + 1, 0)
  ELSE IF Falsy(extractNumericId(products[pi].variants[vi].id))
  THEN Locate(products, pi, vi + 1)
  ELSE [pc |-> "variant", pi |-> pi, vi |-> vi]

---------------------------------------------------------------------------
(* Inputs: what the shop can list.  Each product of RawProducts is one case
   of the write loop. *)

STR_Condition == <<"C","o","n","d","i","t","i","o","n">>

STR_Style == <<"S","t","y","l","e">>

STR_Size == <<"S","i","z","e">>

RawVariant(digit, price, quantity, options) ==
  [id |-> <<"v","/",digit>>, price |-> price, inventoryQuantity |-> quantity,
   sku |-> <<"k",digit>>, selectedOptions |-> options]

ConditionOption(value) == Some(<<[name |-> STR_Condition, value |-> value]>>)

\* product 1, "A (S)", two variants
RawA ==
  [id |-> <<"g","/","1">>, title |-> <<"A"," ","(","S",")">>, handle |-> <<"h">>,
   featuredImage |-> Some(<<"u">>),
   variants |-> <<RawVariant("1", 5, 1, ConditionOption("Near Mint")),
                  RawVariant("2", 3, 1, ConditionOption("Lightly Played"))>>]

\* product 1 again with every field changed and variant 2 no longer listed
RawA2 ==
  [id |-> <<"g","/","1">>, title |-> <<"b">>, handle |-> <<"k">>,
   featuredImage |-> Null,
   variants |-> <<RawVariant("1", 3, 0,
                    Some(<<[name |-> STR_Size, value |-> "XL"],
                           [name |-> STR_Style, value |-> "Foil"]>>))>>]

\* product 2, "a (T)", listing variant 1 and a variant without a numeric id
RawB ==
  [id |-> <<"g","/","2">>, title |-> <<"a"," ","(","T",")">>, handle |-> <<"h">>,
   featuredImage |-> Null,
   variants |-> <<RawVariant("1", 3, 1, ConditionOption("Near Mint")),
                  RawVariant("x", 1, 1, Null)>>]

\* a product whose id ends in 0
RawZero ==
  [id |-> <<"g","/","0">>, title |-> <<"b">>, handle |-> <<"h">>,
   featuredImage |-> Null,
   variants |-> <<RawVariant("3", 1, 1, Null)>>]

\* a product whose id has no trailing digits
RawNoId ==
  [id |-> <<"g","/","x">>, title |-> <<"b">>, handle |-> <<"h">>,
   featuredImage |-> Null,
   variants |-> <<RawVariant("3", 1, 1, Null)>>]

RawProducts == {RawA, RawA2, RawB, RawZero, RawNoId}

SeqsUpTo(S, n) == UNION {[1..k -> S] : k \in 0..n}

Catalogs == SeqsUpTo(RawProducts, MaxCatalogLen)

---------------------------------------------------------------------------
(* The write phase as one function, used to build the stores a behaviour
   may start from: the store after a committed sync of `products`. *)

RECURSIVE WriteFrom(_, _, _)
WriteFrom(t, products, at) ==
  IF at.pc = "product"
  THEN WriteFrom(UpsertProductRow(t, ProductRowOf(products[at.pi])),
                 products, Locate(products, at.pi, 1))
  ELSE IF at.pc = "variant"
  THEN WriteFrom(UpsertVariantRow(t, VariantRowOf(products[at.pi],
                                                  products[at.pi].variants[at.vi])),
                 products, Locate(products, at.pi, at.vi + 1))
  ELSE IF at.pc = "delete"
  THEN DeleteStaleRows(t, shopifyProductIds(products))
  ELSE t

SyncedTables(t, products) == WriteFrom(t, products, Locate(products, 1, 0))

InitStores == {EmptyTables, SyncedTables(EmptyTables, <<RawA>>)}

---------------------------------------------------------------------------
(* part_000: matchDeckList and searchCards.  Prices are whole numbers of
   cents: the DECIMAL(10,2) column, its text form and parseFloat keep their
   order. *)

\* ORDER BY p.card_name depends on the database's collation, which the
\* program does not set: "C" compares code points (upper case first),
\* "locale" compares without case first and puts lower case first on a tie
Collations == {"C", "locale"}

CodeOrder == <<" ","(",")","/">> \o DigitChars \o UpperChars \o <<"_">> \o LowerChars

CharCode(c) == CHOOSE i \in 1..Len(CodeOrder) : CodeOrder[i] = c

\* the sequence of numbers a sorts before the sequence b
LexBefore(a, b) ==
  \E k \in 1..(Len(a) + 1) :
    /\ k <= Len(b)
    /\ \A j \in 1..(k - 1) : j <= Len(a) /\ a[j] = b[j]
    /\ k = Len(a) + 1 \/ a[k] < b[k]

IsUpper(c) == \E i \in 1..26 : UpperChars[i] = c

CaseRank(c) == IF IsUpper(c) THEN 1 ELSE 0

CodesOf(s) == [k \in 1..Len(s) |-> CharCode(s[k])]

CasesOf(s) == [k \in 1..Len(s) |-> CaseRank(s[k])]

CardNameBefore(a, b, collation) ==
  IF collation = "C" THEN LexBefore(CodesOf(a), CodesOf(b))
  ELSE \/ LexBefore(CodesOf(toLowerCase(a)), CodesOf(toLowerCase(b)))
       \/ toLowerCase(a) = toLowerCase(b) /\ LexBefore(CasesOf(a), CasesOf(b))

\* CASE v.condition WHEN 'Near Mint' THEN 1 ... ELSE 6 END
ConditionRank(condition) ==
  IF condition = Some("Near Mint") THEN 1
  ELSE IF condition = Some("Lightly Played") THEN 2
  ELSE IF condition = Some("Moderately Played") THEN 3
  ELSE IF condition = Some("Heavily Played") THEN 4
  ELSE IF condition = Some("Damaged") THEN 5
  ELSE 6

\* ORDER BY p.card_name, v.price ASC, CASE v.condition ... END
RowBefore(x, y, collation) ==
  \/ CardNameBefore(x.card_name, y.card_name, collation)
  \/ /\ x.card_name = y.card_name
     /\ \/ x.price < y.price
        \/ x.price = y.price /\ ConditionRank(x.condition) < ConditionRank(y.condition)

\* products p JOIN variants v ON p.shopify_product_id = v.shopify_product_id
JoinedRows(t) ==
  {[card_name |-> p.card_name, set_name |-> p.set_name, title |-> p.title,
    image_url |-> p.image_url, product_url |-> p.product_url, handle |-> p.handle,
    shopify_variant_id |-> v.shopify_variant_id, condition |-> v.condition,
    finish |-> v.finish, price |-> v.price, quantity |-> v.quantity, sku |-> v.sku]
   : <<p, v>> \in {pv \in t.products \X t.variants :
                     pv[1].shopify_product_id = pv[2].shopify_product_id}}

InList(x, list) == \E k \in 1..Len(list) : list[k] = x

\* WHERE LOWER(p.card_name) = ANY(names) AND v.quantity > 0
MatchingRows(t, normalizedNames) ==
  {r \in JoinedRows(t) : InList(toLowerCase(r.card_name), normalizedNames) /\ r.quantity > 0}

\* the orders in which the database may return `rows`: every one that
\* respects ORDER BY; rows equal in all three keys come in any order
RECURSIVE Orderings(_, _)
Orderings(rows, collation) ==
  IF rows = {} THEN {<<>>}
  ELSE UNION {{<<first>> \o rest : rest \in Orderings(rows \ {first}, collation)}
              : first \in {r \in rows : \A o \in rows : ~RowBefore(o, r, collation)}}

RECURSIVE DigitsOf(_)
DigitsOf(n) ==
  IF n < 10 THEN <<DigitChars[n + 1]>>
  ELSE DigitsOf(n \div 10) \o <<DigitChars[(n % 10) + 1]>>

\* one element of printings (lines 148-160)
PrintingOf(row) ==
  [setName |-> row.set_name, title |-> row.title, imageUrl |-> row.image_url,
   productUrl |-> row.product_url, handle |-> row.handle,
   variantId |-> DigitsOf(row.shopify_variant_id), condition |-> row.condition,
   finish |-> row.finish, price |-> row.price, quantity |-> row.quantity,
   sku |-> row.sku]

\* `grouped` is a plain object: a key it does not own is still found when
\* Object.prototype has it.  Keys are lower-cased, so of the inherited
\* property names only these two can be asked for.
InheritedKeys == {<<"c","o","n","s","t","r","u","c","t","o","r">>,
                  <<"_","_","p","r","o","t","o","_","_">>}

OwnKeys(grouped) == DOMAIN grouped

\* is grouped[key] truthy
Truthy(grouped, key) == key \in OwnKeys(grouped) \/ key \in InheritedKeys

\* the grouping loop (lines 138-161) from row k on.  grouped[key].printings
\* of an inherited value is undefined, and push on it throws.
RECURSIVE GroupRows(_, _, _)
GroupRows(rows, k, grouped) ==
  IF k > Len(rows) THEN [threw |-> FALSE, grouped |-> grouped]
  ELSE LET row == rows[k]
           key == toLowerCase(row.card_name)
       IN IF ~Truthy(grouped, key)
          THEN GroupRows(rows, k + 1,
                 [x \in OwnKeys(grouped) \cup {key} |->
                    IF x = key
                    THEN [cardName |-> row.card_name, printings |-> <<PrintingOf(row)>>]
                    ELSE grouped[x]])
          ELSE IF key \in OwnKeys(grouped)
          THEN GroupRows(rows, k + 1,
                 [grouped EXCEPT ![key].printings = Append(@, PrintingOf(row))])
          ELSE [threw |-> TRUE, grouped |-> grouped]

NoGroups == [x \in {} |-> 0]

\* one element of the result (lines 164-179); spreading an inherited value
\* adds neither cardName nor printings
ResultFor(name, grouped) ==
  LET key == toLowerCase(trim(name)) IN
  IF key \in OwnKeys(grouped)
  THEN [requested |-> trim(name), found |-> TRUE,
        cardName |-> Some(grouped[key].cardName),
        printings |-> Some(grouped[key].printings)]
  ELSE IF key \in InheritedKeys
  THEN [requested |-> trim(name), found |-> TRUE,
        cardName |-> Null, printings |-> Null]
  ELSE [requested |-> trim(name), found |-> FALSE,
        cardName |-> Some(trim(name)), printings |-> Some(<<>>)]

\* const normalizedNames = cardNames.map(name => name.trim().toLowerCase())
normalizedNamesOf(cardNames) == [k \in 1..Len(cardNames) |-> toLowerCase(trim(cardNames[k]))]

\* matchDeckList(cardNames) when the query returned `rows`
MatchResultOf(cardNames, rows) ==
  LET g == GroupRows(rows, 1, NoGroups) IN
  IF g.threw THEN [threw |-> TRUE, results |-> <<>>]
  ELSE [threw |-> FALSE,
        results |-> [k \in 1..Len(cardNames) |-> ResultFor(cardNames[k], g.grouped)]]

\* every value matchDeckList(cardNames) can return from the tables t
matchDeckList(t, cardNames, collation) ==
  IF Len(cardNames) = 0 THEN {[threw |-> FALSE, results |-> <<>>]}
  ELSE {MatchResultOf(cardNames, rows) :
          rows \in Orderings(MatchingRows(t, normalizedNamesOf(cardNames)), collation)}

\* does text contain part
Contains(text, part) ==
  \E k \in 0..(Len(text) - Len(part)) : SubSeq(text, k + 1, k + Len(part)) = part

Min(S) == CHOOSE x \in S : \A y \in S : x <= y

RECURSIVE SumQuantity(_)
SumQuantity(rows) ==
  IF rows = {} THEN 0
  ELSE LET r == CHOOSE x \in rows : TRUE IN r.quantity + SumQuantity(rows \ {r})

\* searchCards(searchTerm): the groups of the query.  Their order (ORDER BY
\* p.card_name) is not kept, and LIMIT 20 is above what the bounds reach.
searchCards(t, searchTerm) ==
  LET rows == {r \in JoinedRows(t) :
                 Contains(toLowerCase(r.card_name), toLowerCase(searchTerm)) /\ r.quantity > 0}
      keys == {<<r.card_name, r.set_name, r.image_url>> : r \in rows}
      of(k) == {r \in rows : <<r.card_name, r.set_name, r.image_url>> = k}
  IN {[card_name |-> k[1], set_name |-> k[2], image_url |-> k[3],
       min_price |-> Min({r.price : r \in of(k)}),
       total_quantity |-> SumQuantity(of(k))] : k \in keys}

\* const conditionOrder = ['Near Mint', 'Lightly Played', ...]
conditionOrder ==
  <<"Near Mint", "Lightly Played", "Moderately Played", "Heavily Played", "Damaged">>

\* conditionOrder.indexOf(condition): zero-based, -1 for a value not listed
\* (null included)
IndexOfCondition(condition) ==
  IF \E k \in 1..Len(conditionOrder) : condition = Some(conditionOrder[k])
  THEN (CHOOSE k \in 1..Len(conditionOrder) : condition = Some(conditionOrder[k])) - 1
  ELSE -1

\* the comparator of the sort in getBestConditionForEach
CompareBest(a, b) ==
  IF IndexOfCondition(a.condition) # IndexOfCondition(b.condition)
  THEN IndexOfCondition(a.condition) - IndexOfCondition(b.condition)
  ELSE a.price - b.price

\* x put into the sorted list after every element that does not compare
\* greater (Array.prototype.sort is stable)
RECURSIVE InsertStable(_, _)
InsertStable(sorted, x) ==
  IF sorted = <<>> THEN <<x>>
  ELSE IF CompareBest(Head(sorted), x) <= 0
  THEN <<Head(sorted)>> \o InsertStable(Tail(sorted), x)
  ELSE <<x>> \o sorted

\* [...printings].sort(comparator)
RECURSIVE SortBest(_)
SortBest(printings) ==
  IF printings = <<>> THEN <<>>
  ELSE InsertStable(SortBest(SubSeq(printings, 1, Len(printings) - 1)),
                    printings[Len(printings)])

\* card.printings.length of an entry without a printings property throws
SelectionThrows(results) ==
  \E k \in 1..Len(results) : results[k].found /\ results[k].printings = Null

\* {...card, selected}
WithSelected(card, selected) ==
  [requested |-> card.requested, found |-> card.found, cardName |-> card.cardName,
   printings |-> card.printings, selected |-> selected]

\* the map of getCheapestForEach over one entry
CheapestOf(card) ==
  IF ~card.found \/ Len(card.printings[1]) = 0
  THEN WithSelected(card, Null)
  ELSE WithSelected(card, Some(card.printings[1][1]))

\* the map of getBestConditionForEach over one entry
BestConditionOf(card) ==
  IF ~card.found \/ Len(card.printings[1]) = 0
  THEN WithSelected(card, Null)
  ELSE WithSelected(card, Some(SortBest(card.printings[1])[1]))

\* getCheapestForEach(cardNames) when matchDeckList gave `matched`
getCheapestForEach(matched) ==
  IF matched.threw \/ SelectionThrows(matched.results)
  THEN [threw |-> TRUE, results |-> <<>>]
  ELSE [threw |-> FALSE,
        results |-> [k \in 1..Len(matched.results) |-> CheapestOf(matched.results[k])]]

\* getBestConditionForEach(cardNames) when matchDeckList gave `matched`
getBestConditionForEach(matched) ==
  IF matched.threw \/ SelectionThrows(matched.results)
  THEN [threw |-> TRUE, results |-> <<>>]
  ELSE [threw |-> FALSE,
        results |-> [k \in 1..Len(matched.results) |-> BestConditionOf(matched.results[k])]]

---------------------------------------------------------------------------
(* State *)

VARIABLES
  store,      \* the committed products and variants tables
  sync_log,   \* the sync_log table, rows in id order
  inv,        \* inv[i]: the i-th syncInventory invocation
  started,    \* invocations started so far
  upstream,   \* the product list the shop serves
  lastRead,   \* the matchDeckList / searchCards query being answered
  boundaries, \* history: the committed stores seen at transaction boundaries
  prev,       \* history: the fetch and the store of the invocation before the
              \* current one, when it returned
  cachedToken,    \* shopify-auth.js: the cached access token
  tokenExpiresAt, \* shopify-auth.js: when the cached token expires
  clock,          \* Date.now()
  env,            \* process.env: the three Shopify credentials
  tokenCalls,     \* the getAccessToken calls
  exchanges,      \* history: credential exchange requests sent so far
  lastExchange,   \* history: the exchange response processed last
  fetchCall,      \* a fetchAllProducts call on its own
  deckCall,       \* a parseTextDeckList call
  apiCall         \* a request to one of the API handlers

\* the variables of syncInventory and of the matcher
syncVars == <<store, sync_log, inv, started, upstream, lastRead, boundaries, prev>>

\* the variables of the token cache
authVars == <<cachedToken, tokenExpiresAt, clock, env, tokenCalls, exchanges, lastExchange>>

\* everything a sync statement or a matcher query leaves alone
apart == <<authVars, fetchCall, deckCall, apiCall>>

vars == <<syncVars, authVars, fetchCall, deckCall, apiCall>>

Invocations == 1..MaxRuns

\* an invocation that has not been called yet
Idle ==
  [pc |-> "idle", client |-> "none", syncLogId |-> 0, allProducts |-> <<>>,
   cursor |-> 0, productCount |-> 0, variantCount |-> 0, pi |-> 0, vi |-> 0,
   inTxn |-> FALSE, work |-> EmptyTables, error |-> Null,
   \* history, read by the properties only
   failedAt |-> "none", began |-> FALSE, committed |-> FALSE,
   pre |-> EmptyTables]

Ended(i) == inv[i].pc \in {"returned", "threw"}

Active(i) == inv[i].pc \notin {"idle", "returned", "threw"}

\* a statement of invocation i may fail if none of its statements has failed
MayFail(i) == inv[i].failedAt = "none"

\* what a statement on the invocation's client sees and where it writes:
\* inside BEGIN..COMMIT the transaction's private tables, otherwise the
\* committed ones (autocommit)
DbView(i) == IF inv[i].inTxn THEN inv[i].work ELSE store

\* overlapping getAccessToken calls
MaxCallers == 2

\* credential exchange requests per behaviour
MaxExchanges == 2

Callers == 1..MaxCallers

\* a getAccessToken call that has not been made
NoTokenCall ==
  [pc |-> "idle", result |-> Null, error |-> "none",
   \* history, read by the properties only
   fromCache |-> FALSE, sent |-> 0, seen |-> Null, response |-> Null]

\* a credential as process.env holds it: unset, empty or set
CredentialValues == {Null, Some(<<>>), Some(<<"x">>)}

FullEnv ==
  [SHOPIFY_CLIENT_ID |-> Some(<<"x">>), SHOPIFY_CLIENT_SECRET |-> Some(<<"x">>),
   SHOPIFY_STORE_DOMAIN |-> Some(<<"x">>)]

\* the environments: the three credentials set, or one of them unset or empty
Envs ==
  {FullEnv} \cup {[FullEnv EXCEPT ![k] = v] :
                    k \in DOMAIN FullEnv, v \in CredentialValues}

\* shopify-auth.js as loaded: let cachedToken = null; let tokenExpiresAt = 0
ColdAuth ==
  /\ cachedToken = Null
  /\ tokenExpiresAt = 0
  /\ tokenCalls = [c \in Callers |-> NoTokenCall]
  /\ exchanges = 0
  /\ lastExchange = Null

\* no call of the token cache, the fetch, the deck parser or the API is under way
AtRest ==
  /\ ColdAuth
  /\ clock = 0
  /\ env = FullEnv
  /\ fetchCall = Null
  /\ deckCall = Null
  /\ apiCall = Null

Init ==
  /\ AtRest
  /\ store \in InitStores
  /\ sync_log = <<>>
  /\ inv = [i \in Invocations |-> Idle]
  /\ started = 0
  /\ upstream = <<>>
  /\ lastRead = Null
  /\ boundaries = {store}
  /\ prev = Null

---------------------------------------------------------------------------
(* The statements of syncInventory.  Every statement is one step: it either
   succeeds or, when MayFail, rejects. *)

\* the catch block is entered with the error of the statement `where`
Caught(r, where) ==
  [r EXCEPT !.pc = "rollback", !.error = Some(where), !.failedAt = where]

\* a BEGIN that opens no transaction: the statements after it autocommit
TxBegin_Autocommit(r) == [r EXCEPT !.began = TRUE]

\* client.query('BEGIN'): the client's statements are private until COMMIT
TxBegin(r) == [r EXCEPT !.inTxn = TRUE, !.work = store, !.began = TRUE]

\* client.query('ROLLBACK'), and what a failed COMMIT leaves: nothing
TxDiscard(r) == [r EXCEPT !.inTxn = FALSE, !.work = EmptyTables]

\* what COMMIT publishes
TxCommitted(r) == IF r.inTxn THEN r.work ELSE store

RunningRow ==
  [status |-> "running", products_synced |-> 0, variants_synced |-> 0,
   error_message |-> Null, finished_at |-> Null, terminal_updates |-> 0]

\* UPDATE sync_log SET finished_at = NOW(), products_synced, variants_synced,
\* status = 'completed' WHERE id = syncLogId
CompletedRow(row, r) ==
  [row EXCEPT !.finished_at = Some("NOW"), !.products_synced = r.productCount,
              !.variants_synced = r.variantCount, !.status = "completed",
              !.terminal_updates = @ + 1]

\* a failure UPDATE that leaves the status as it was
FailedRow_KeepsStatus(row, r) ==
  [row EXCEPT !.finished_at = Some("NOW"), !.error_message = r.error,
              !.terminal_updates = @ + 1]

\* UPDATE sync_log SET finished_at = NOW(), status = 'failed',
\* error_message = error.message WHERE id = syncLogId
FailedRow(row, r) ==
  [row EXCEPT !.finished_at = Some("NOW"), !.status = "failed",
              !.error_message = r.error, !.terminal_updates = @ + 1]

\* an invocation that is over keeps no locals; how it ended and which
\* sync_log row it inserted stay on record
Finished(r) == [Idle EXCEPT !.pc = r.pc, !.syncLogId = r.syncLogId]

\* nothing serialises invocations in the program; this specification starts
\* one when no other is running
NoOtherSyncRunning == \A j \in Invocations : ~Active(j)

\* syncInventory() is called: at startup, by the schedule, by /sync/trigger.
\* The shop's catalog may have changed since the last call.
Start(i) ==
  /\ i = started + 1
  /\ inv[i].pc = "idle"
  /\ NoOtherSyncRunning
  /\ started' = i
  /\ inv' = [j \in Invocations |->
               IF j = i THEN [inv[j] EXCEPT !.pc = "connect", !.pre = store]
               ELSE Finished(inv[j])]
  /\ prev' = IF i > 1 /\ inv[i - 1].pc = "returned"
             THEN Some([allProducts |-> inv[i - 1].allProducts, tables |-> store])
             ELSE Null
  /\ upstream' \in Catalogs
  /\ UNCHANGED <<store, sync_log, lastRead, boundaries>>
  /\ UNCHANGED apart

\* const client = await pool.connect()
Connect(i) ==
  /\ inv[i].pc = "connect"
  /\ \/ inv' = [inv EXCEPT ![i] = [@ EXCEPT !.pc = "insert", !.client = "held"]]
     \/ /\ MayFail(i)
        /\ inv' = [inv EXCEPT ![i] = [@ EXCEPT !.pc = "threw", !.failedAt = "connect",
                                               !.error = Some("connect")]]
  /\ UNCHANGED <<store, sync_log, started, upstream, lastRead, boundaries, prev>>
  /\ UNCHANGED apart

\* an INSERT that adds a second 'running' row
InsertLog_Twice(i) ==
  /\ inv[i].pc = "insert"
  /\ sync_log' = sync_log \o <<RunningRow, RunningRow>>
  /\ inv' = [inv EXCEPT ![i] = [@ EXCEPT !.pc = "fetch", !.syncLogId = Len(sync_log) + 2]]
  /\ UNCHANGED <<store, started, upstream, lastRead, boundaries, prev>>
  /\ UNCHANGED apart

\* an INSERT whose RETURNING id is always that of the first row
InsertLog_FirstId(i) ==
  /\ inv[i].pc = "insert"
  /\ sync_log' = Append(sync_log, RunningRow)
  /\ inv' = [inv EXCEPT ![i] = [@ EXCEPT !.pc = "fetch", !.syncLogId = 1]]
  /\ UNCHANGED <<store, started, upstream, lastRead, boundaries, prev>>
  /\ UNCHANGED apart

\* INSERT INTO sync_log (status) VALUES ('running') RETURNING id: outside the try
InsertLog(i) ==
  /\ inv[i].pc = "insert"
  /\ \/ /\ sync_log' = Append(sync_log, RunningRow)
        /\ inv' = [inv EXCEPT ![i] = [@ EXCEPT !.pc = "fetch",
                                               !.syncLogId = Len(sync_log) + 1]]
     \/ /\ MayFail(i)
        /\ inv' = [inv EXCEPT ![i] = [@ EXCEPT !.pc = "threw", !.failedAt = "insert",
                                               !.error = Some("insert")]]
        /\ UNCHANGED sync_log
  /\ UNCHANGED <<store, started, upstream, lastRead, boundaries, prev>>
  /\ UNCHANGED apart

\* products(first: 250, after: $cursor) as the shop answers it
PageOf(products, cursor) ==
  [edges       |-> SubSeq(products, cursor + 1,
                          IF cursor + PageSize < Len(products)
                          THEN cursor + PageSize ELSE Len(products)),
   hasNextPage |-> cursor + PageSize < Len(products),
   endCursor   |-> IF cursor + PageSize < Len(products)
                   THEN cursor + PageSize ELSE Len(products)]

\* one turn of the while loop of fetchAllProducts: await shopifyGraphQL(...)
FetchPage(i) ==
  /\ inv[i].pc = "fetch"
  /\ \/ LET page == PageOf(upstream, inv[i].cursor) IN
        inv' = [inv EXCEPT ![i] =
                  [@ EXCEPT !.allProducts = @ \o page.edges,
                            !.cursor = page.endCursor,
                            !.pc = IF page.hasNextPage THEN "fetch" ELSE "begin"]]
     \/ /\ MayFail(i)
        /\ inv' = [inv EXCEPT ![i] = Caught(@, "fetch")]
  /\ UNCHANGED <<store, sync_log, started, upstream, lastRead, boundaries, prev>>
  /\ UNCHANGED apart

\* where the write phase goes from product pi, variant vi
Goto(r, pi, vi) ==
  LET at == Locate(r.allProducts, pi, vi) IN
  [r EXCEPT !.pc = at.pc, !.pi = at.pi, !.vi = at.vi]

\* a write phase that starts without BEGIN
Begin_WithoutTransaction(i) ==
  /\ inv[i].pc = "begin"
  /\ inv' = [inv EXCEPT ![i] = Goto(@, 1, 0)]
  /\ UNCHANGED <<store, sync_log, started, upstream, lastRead, boundaries, prev>>
  /\ UNCHANGED apart

\* await client.query('BEGIN')
Begin(i) ==
  /\ inv[i].pc = "begin"
  /\ \/ /\ inv' = [inv EXCEPT ![i] = Goto(TxBegin(@), 1, 0)]
        /\ boundaries' = boundaries \cup {store}
     \/ /\ MayFail(i)
        /\ inv' = [inv EXCEPT ![i] = Caught(@, "begin")]
        /\ UNCHANGED boundaries
  /\ UNCHANGED <<store, sync_log, started, upstream, lastRead, prev>>
  /\ UNCHANGED apart

\* the product upsert, then productCount++
UpsertProduct(i) ==
  /\ inv[i].pc = "product"
  /\ \/ LET r   == inv[i]
            row == ProductRowOf(r.allProducts[r.pi])
            t   == UpsertProductRow(DbView(i), row)
            nxt == Goto([r EXCEPT !.productCount = @ + 1], r.pi, 1)
        IN IF r.inTxn
           THEN /\ inv' = [inv EXCEPT ![i] = [nxt EXCEPT !.work = t]]
                /\ UNCHANGED store
           ELSE /\ inv' = [inv EXCEPT ![i] = nxt]
                /\ store' = t
     \/ /\ MayFail(i)
        /\ inv' = [inv EXCEPT ![i] = Caught(@, "product")]
        /\ UNCHANGED store
  /\ UNCHANGED <<sync_log, started, upstream, lastRead, boundaries, prev>>
  /\ UNCHANGED apart

\* the variant upsert, then variantCount++; the store rejects an inserted
\* variant whose parent row is missing
UpsertVariant(i) ==
  /\ inv[i].pc = "variant"
  /\ LET r   == inv[i]
         row == VariantRowOf(r.allProducts[r.pi], r.allProducts[r.pi].variants[r.vi])
         t   == UpsertVariantRow(DbView(i), row)
         nxt == Goto([r EXCEPT !.variantCount = @ + 1], r.pi, r.vi + 1)
     IN \/ /\ row.shopify_variant_id \in VariantIds(DbView(i)) \/ ForeignKeyHolds(DbView(i), row)
           /\ IF r.inTxn
              THEN /\ inv' = [inv EXCEPT ![i] = [nxt EXCEPT !.work = t]]
                   /\ UNCHANGED store
              ELSE /\ inv' = [inv EXCEPT ![i] = nxt]
                   /\ store' = t
        \/ /\ \/ MayFail(i)
              \/ ~(row.shopify_variant_id \in VariantIds(DbView(i)) \/ ForeignKeyHolds(DbView(i), row))
           /\ inv' = [inv EXCEPT ![i] = Caught(@, "variant")]
           /\ UNCHANGED store
  /\ UNCHANGED <<sync_log, started, upstream, lastRead, boundaries, prev>>
  /\ UNCHANGED apart

\* the DELETE of the products that are not in the fetched id list
DeleteStale(i) ==
  /\ inv[i].pc = "delete"
  /\ \/ LET r == inv[i]
            t == DeleteStaleRows(DbView(i), shopifyProductIds(r.allProducts))
        IN IF r.inTxn
           THEN /\ inv' = [inv EXCEPT ![i] = [r EXCEPT !.pc = "commit", !.work = t]]
                /\ UNCHANGED store
           ELSE /\ inv' = [inv EXCEPT ![i] = [r EXCEPT !.pc = "commit"]]
                /\ store' = t
     \/ /\ MayFail(i)
        /\ inv' = [inv EXCEPT ![i] = Caught(@, "delete")]
        /\ UNCHANGED store
  /\ UNCHANGED <<sync_log, started, upstream, lastRead, boundaries, prev>>
  /\ UNCHANGED apart

\* await client.query('COMMIT'): a COMMIT that fails commits nothing
Commit(i) ==
  /\ inv[i].pc = "commit"
  /\ \/ /\ store' = TxCommitted(inv[i])
        /\ inv' = [inv EXCEPT ![i] = [TxDiscard(@) EXCEPT !.pc = "logok", !.committed = TRUE]]
        /\ boundaries' = boundaries \cup {store'}
     \/ /\ MayFail(i)
        /\ inv' = [inv EXCEPT ![i] = Caught(TxDiscard(@), "commit")]
        /\ UNCHANGED <<store, boundaries>>
  /\ UNCHANGED <<sync_log, started, upstream, lastRead, prev>>
  /\ UNCHANGED apart

\* the UPDATE of the sync_log row after the commit, then return; finally
\* releases the client
LogCompleted(i) ==
  /\ inv[i].pc = "logok"
  /\ \/ /\ sync_log' = [sync_log EXCEPT ![inv[i].syncLogId] = CompletedRow(@, inv[i])]
        /\ inv' = [inv EXCEPT ![i] = [@ EXCEPT !.pc = "returned", !.client = "released"]]
     \/ /\ MayFail(i)
        /\ inv' = [inv EXCEPT ![i] = Caught(@, "logok")]
        /\ UNCHANGED sync_log
  /\ UNCHANGED <<store, started, upstream, lastRead, boundaries, prev>>
  /\ UNCHANGED apart

\* catch: await client.query('ROLLBACK')
Rollback(i) ==
  /\ inv[i].pc = "rollback"
  /\ inv' = [inv EXCEPT ![i] = [TxDiscard(@) EXCEPT !.pc = "logfail"]]
  /\ UNCHANGED <<store, sync_log, started, upstream, lastRead, boundaries, prev>>
  /\ UNCHANGED apart

\* a catch block that records the failure and does not rethrow
LogFailed_Swallows(i) ==
  /\ inv[i].pc = "logfail"
  /\ sync_log' = [sync_log EXCEPT ![inv[i].syncLogId] = FailedRow(@, inv[i])]
  /\ inv' = [inv EXCEPT ![i] = [@ EXCEPT !.pc = "returned", !.client = "released"]]
  /\ UNCHANGED <<store, started, upstream, lastRead, boundaries, prev>>
  /\ UNCHANGED apart

\* catch: the UPDATE of the sync_log row, then throw error; finally releases
\* the client
LogFailed(i) ==
  /\ inv[i].pc = "logfail"
  /\ sync_log' = [sync_log EXCEPT ![inv[i].syncLogId] = FailedRow(@, inv[i])]
  /\ inv' = [inv EXCEPT ![i] = [@ EXCEPT !.pc = "threw", !.client = "released"]]
  /\ UNCHANGED <<store, started, upstream, lastRead, boundaries, prev>>
  /\ UNCHANGED apart

---------------------------------------------------------------------------
(* The queries of the API handlers: each is one statement on the pool, so it
   sees the committed tables *)

\* names asked for while syncs run
SyncReadNames == {<< <<" ","A">>, <<"b">> >>}

SearchTerms == {<<"A">>}

\* history: a sync has written rows in a transaction it has not ended
MidWrite == \E i \in Invocations : inv[i].inTxn /\ inv[i].work # store

\* matchDeckList(cardNames) runs its query and returns or throws
MatchQuery(cardNames) ==
  /\ lastRead = Null
  /\ \E collation \in Collations :
       \E result \in matchDeckList(store, cardNames, collation) :
         lastRead' = Some([kind |-> "match", input |-> cardNames, collation |-> collation,
                           view |-> store, midWrite |-> MidWrite,
                           threw |-> result.threw, results |-> result.results])
  /\ UNCHANGED <<store, sync_log, inv, started, upstream, boundaries, prev>>
  /\ UNCHANGED apart

\* searchCards(searchTerm) runs its query and returns
SearchQuery(searchTerm) ==
  /\ lastRead = Null
  /\ lastRead' = Some([kind |-> "search", input |-> searchTerm, collation |-> "any",
                       view |-> store, midWrite |-> MidWrite, threw |-> FALSE,
                       results |-> searchCards(store, searchTerm)])
  /\ UNCHANGED <<store, sync_log, inv, started, upstream, boundaries, prev>>
  /\ UNCHANGED apart

\* getCheapestForEach(cardNames) runs matchDeckList and picks
CheapestQuery(cardNames) ==
  /\ lastRead = Null
  /\ \E collation \in Collations :
       \E matched \in matchDeckList(store, cardNames, collation) :
         lastRead' = Some([kind |-> "cheapest", input |-> cardNames,
                           collation |-> collation, view |-> store,
                           midWrite |-> MidWrite,
                           threw |-> getCheapestForEach(matched).threw,
                           results |-> getCheapestForEach(matched).results])
  /\ UNCHANGED <<store, sync_log, inv, started, upstream, boundaries, prev>>
  /\ UNCHANGED apart

\* getBestConditionForEach(cardNames) runs matchDeckList and picks
BestConditionQuery(cardNames) ==
  /\ lastRead = Null
  /\ \E collation \in Collations :
       \E matched \in matchDeckList(store, cardNames, collation) :
         lastRead' = Some([kind |-> "best", input |-> cardNames,
                           collation |-> collation, view |-> store,
                           midWrite |-> MidWrite,
                           threw |-> getBestConditionForEach(matched).threw,
                           results |-> getBestConditionForEach(matched).results])
  /\ UNCHANGED <<store, sync_log, inv, started, upstream, boundaries, prev>>
  /\ UNCHANGED apart

\* the handler answers the request
Respond ==
  /\ lastRead # Null
  /\ lastRead' = Null
  /\ UNCHANGED <<store, sync_log, inv, started, upstream, boundaries, prev>>
  /\ UNCHANGED apart

syncInventory(i) ==
  \/ Start(i) \/ Connect(i) \/ InsertLog(i) \/ FetchPage(i) \/ Begin(i)
  \/ UpsertProduct(i) \/ UpsertVariant(i) \/ DeleteStale(i) \/ Commit(i)
  \/ LogCompleted(i) \/ Rollback(i) \/ LogFailed(i)

Next ==
  \/ \E i \in Invocations : syncInventory(i)
  \/ \E cardNames \in SyncReadNames : MatchQuery(cardNames)
  \/ \E searchTerm \in SearchTerms : SearchQuery(searchTerm)
  \/ Respond

Spec == Init /\ [][Next]_vars

---------------------------------------------------------------------------
(* matchDeckList on its own: the stores a sync can leave and the name lists
   a caller can send *)

\* names in one call of matchDeckList
MaxNames == 2

\* product 1, "A (S)": the three printings 5.00 NM, 3.00 LP, 3.00 NM
MatchA ==
  [id |-> <<"g","/","1">>, title |-> <<"A"," ","(","S",")">>, handle |-> <<"h">>,
   featuredImage |-> Some(<<"u">>),
   variants |-> <<RawVariant("1", 5, 1, ConditionOption("Near Mint")),
                  RawVariant("2", 3, 1, ConditionOption("Lightly Played")),
                  RawVariant("3", 3, 2, ConditionOption("Near Mint"))>>]

\* product 2, "a (T)": the same card name in lower case, one printing in
\* stock and one sold out
MatchLowerA ==
  [id |-> <<"g","/","2">>, title |-> <<"a"," ","(","T",")">>, handle |-> <<"h">>,
   featuredImage |-> Null,
   variants |-> <<RawVariant("4", 4, 1, ConditionOption("Near Mint")),
                  RawVariant("5", 2, 0, ConditionOption("Near Mint"))>>]

\* product 3, "b": equal prices, conditions outside the ranked five
MatchB ==
  [id |-> <<"g","/","3">>, title |-> <<"b">>, handle |-> <<"h">>,
   featuredImage |-> Null,
   variants |-> <<RawVariant("6", 1, 1, Null),
                  RawVariant("7", 1, 1, ConditionOption("Damaged")),
                  RawVariant("8", 1, 1, ConditionOption("Sealed"))>>]

\* product 4, "c": sold out
MatchSoldOut ==
  [id |-> <<"g","/","4">>, title |-> <<"c">>, handle |-> <<"h">>,
   featuredImage |-> Null,
   variants |-> <<RawVariant("9", 1, 0, ConditionOption("Near Mint"))>>]

\* product 5, a card called "Constructor"
MatchConstructor ==
  [id |-> <<"g","/","5">>,
   title |-> <<"C","o","n","s","t","r","u","c","t","o","r">>, handle |-> <<"h">>,
   featuredImage |-> Null,
   variants |-> <<RawVariant("9", 1, 1, ConditionOption("Near Mint"))>>]

MatchCatalogs ==
  {<<>>, <<MatchA>>, <<MatchA, MatchLowerA>>, <<MatchA, MatchB, MatchSoldOut>>,
   <<MatchB, MatchConstructor>>}

MatchStores == {SyncedTables(EmptyTables, c) : c \in MatchCatalogs}

MatchNames ==
  {<<"a">>, <<" ","A"," ">>, <<"b">>, <<"c">>, <<"z">>,
   <<"c","o","n","s","t","r","u","c","t","o","r">>}

NameLists == SeqsUpTo(MatchNames, MaxNames)

InitMatch ==
  /\ AtRest
  /\ store \in MatchStores
  /\ sync_log = <<>>
  /\ inv = [i \in Invocations |-> Idle]
  /\ started = 0
  /\ upstream = <<>>
  /\ lastRead = Null
  /\ boundaries = {store}
  /\ prev = Null

NextMatch ==
  \/ \E cardNames \in NameLists : MatchQuery(cardNames)
  \/ \E cardNames \in NameLists : CheapestQuery(cardNames)
  \/ \E cardNames \in NameLists : BestConditionQuery(cardNames)
  \/ Respond

SpecMatch == InitMatch /\ [][NextMatch]_vars

---------------------------------------------------------------------------
(* Properties of syncInventory.  inv[i] keeps its locals and its history
   until the next invocation starts, so "after invocation i" is: i is the
   latest invocation and it is past the statement in question. *)

\* the numeric ids of the products invocation i fetched
FetchedIds(i) ==
  {shopifyProductIds(inv[i].allProducts)[k]
     : k \in 1..Len(shopifyProductIds(inv[i].allProducts))}

\* the sync_log row of invocation i
LogRowOf(i) == sync_log[inv[i].syncLogId]

WritePhaseStatements == {"product", "variant", "delete", "commit"}

C3_SecondSyncChangesNothing ==
  \A i \in Invocations :
    (/\ i = started
     /\ inv[i].pc = "returned"
     /\ prev # Null
     /\ prev[1].allProducts = inv[i].allProducts)
    => store = prev[1].tables

\* C4: every variant row, committed or written inside a transaction, has its
\* parent product row; a variant upsert runs only for a product with a
\* numeric id whose row this invocation has written; after the DELETE no
\* variant of a deleted product is left.
C4_ReferentialIntegrity ==
  /\ \A v \in store.variants : ForeignKeyHolds(store, v)
  /\ \A i \in Invocations :
       /\ inv[i].inTxn => \A v \in inv[i].work.variants : ForeignKeyHolds(inv[i].work, v)
       /\ inv[i].pc = "variant" =>
            /\ ~Falsy(extractNumericId(inv[i].allProducts[inv[i].pi].id))
            /\ ProductRowOf(inv[i].allProducts[inv[i].pi]) \in DbView(i).products
       /\ inv[i].pc = "commit" =>
            \A v \in DbView(i).variants : v.shopify_product_id \in ProductIds(DbView(i))

\* C4 witness: the DELETE of an invocation has removed a product that had
\* variants.
C4_ProductWithVariantsDeleted ==
  \E i \in Invocations :
    /\ inv[i].pc = "commit"
    /\ inv[i].inTxn
    /\ \E v \in inv[i].pre.variants : v.shopify_product_id \notin ProductIds(inv[i].work)

C22_AuditRowAgreesWithStore ==
  \A i \in Invocations :
    Ended(i) /\ i = started /\ inv[i].syncLogId # 0 =>
      /\ LogRowOf(i).status = "completed" <=> inv[i].committed
      /\ LogRowOf(i).status = "failed" => ~inv[i].committed /\ store = inv[i].pre

\* the numeric variant ids listed anywhere in a fetch result
FetchedVariantIds(products) ==
  UNION {{extractNumericId(products[k].variants[n].id)[1] :
            n \in {n \in DOMAIN products[k].variants :
                     ~IsNull(extractNumericId(products[k].variants[n].id))}} :
         k \in DOMAIN products}

\* C23: in every state of an invocation, seen through its own connection: a
\* variant row that was in the store when the invocation started and is no
\* longer there had a parent product that the DELETE removed (its id is not
\* among the fetched product ids); a variant row whose parent is among the
\* fetched product ids and whose own id is listed nowhere in the fetch is
\* still there with every field as it was; and a variant row that has the id
\* of a row present at the start has that row's parent product id.
C23_VariantsLeaveOnlyByCascade ==
  \A i \in Invocations :
    i = started /\ inv[i].pc # "idle" =>
      LET ids == shopifyProductIds(inv[i].allProducts)
          kept == {ids[k] : k \in 1..Len(ids)}
      IN \A v \in inv[i].pre.variants :
           /\ v.shopify_variant_id \notin VariantIds(DbView(i)) =>
                /\ kept # {}
                /\ v.shopify_product_id \notin kept
                /\ v.shopify_product_id \notin ProductIds(DbView(i))
           /\ v.shopify_product_id \in kept
                /\ v.shopify_variant_id \notin FetchedVariantIds(inv[i].allProducts)
                => v \in DbView(i).variants
           /\ \A w \in DbView(i).variants :
                w.shopify_variant_id = v.shopify_variant_id
                  => w.shopify_product_id = v.shopify_product_id

\* C23 witness: an invocation has returned whose fetch listed product 1
\* without variant 2: variant 1 was rewritten by its upsert, variant 2 is in
\* the store as it was, and both still belong to product 1.
C23_UnlistedVariantKept ==
  \E i \in Invocations :
    /\ i = started /\ inv[i].pc = "returned"
    /\ \E v \in inv[i].pre.variants :
         /\ v.shopify_product_id \in ProductIds(store)
         /\ v.shopify_variant_id \notin FetchedVariantIds(inv[i].allProducts)
         /\ v \in store.variants
    /\ \E v \in inv[i].pre.variants : \E w \in store.variants :
         /\ w.shopify_variant_id = v.shopify_variant_id
         /\ w.shopify_product_id = v.shopify_product_id
         /\ w # v

C8_ReadsSeeTransactionBoundary ==
  lastRead # Null => lastRead[1].view \in boundaries

\* C8 witness: a query has run while a sync had written rows in a
\* transaction it had not ended.
C8_ReadDuringWrites ==
  lastRead # Null /\ lastRead[1].midWrite

---------------------------------------------------------------------------
(* Properties of matchDeckList *)

\* the query of matchDeckList finds no in-stock variant for `name`
NotInStock(t, name) == MatchingRows(t, <<toLowerCase(trim(name))>>) = {}

\* printing x may stand before printing y: cheaper, or as cheap and of no
\* worse condition
InPriceOrder(x, y) ==
  \/ x.price < y.price
  \/ x.price = y.price /\ ConditionRank(x.condition) <= ConditionRank(y.condition)

\* C9 as stated: matchDeckList returns one entry per input name, in input
\* order, with the trimmed name in its original casing as `requested`, and a
\* name with no in-stock variant has found = false and no printings.
C9_OneEntryPerName ==
  lastRead # Null /\ lastRead[1].kind = "match" =>
    LET r == lastRead[1] IN
    /\ ~r.threw
    /\ Len(r.results) = Len(r.input)
    /\ \A k \in 1..Len(r.input) :
         /\ r.results[k].requested = trim(r.input[k])
         /\ NotInStock(r.view, r.input[k]) =>
              /\ r.results[k].found = FALSE
              /\ r.results[k].printings = Some(<<>>)

\* C10 as stated: in every entry matchDeckList returns, the printings are in
\* ascending price order, equal prices in condition rank order.
C10_PrintingsInPriceOrder ==
  lastRead # Null /\ lastRead[1].kind = "match" /\ ~lastRead[1].threw =>
    \A k \in 1..Len(lastRead[1].results) :
      LET printings == lastRead[1].results[k].printings IN
      printings # Null =>
        \A a, b \in 1..Len(printings[1]) :
          a < b => InPriceOrder(printings[1][a], printings[1][b])

\* the ranks of the conditions among the printings
RanksOf(printings) == {ConditionRank(printings[k].condition) : k \in 1..Len(printings)}

\* the prices of the printings of rank `rank`
PricesOfRank(printings, rank) ==
  {printings[k].price : k \in {j \in 1..Len(printings) :
                                 ConditionRank(printings[j].condition) = rank}}

\* C11 as stated: in what getBestConditionForEach returns, a card with
\* printings has a selected printing of the best condition rank among them
\* (null and unknown conditions rank last) and of the lowest price within
\* that rank; selected is null exactly for a card without printings.
C11_BestConditionSelected ==
  lastRead # Null /\ lastRead[1].kind = "best" /\ ~lastRead[1].threw =>
    \A k \in 1..Len(lastRead[1].results) :
      LET card      == lastRead[1].results[k]
          printings == card.printings[1]
      IN /\ card.selected = Null <=> Len(printings) = 0
         /\ Len(printings) > 0 =>
              /\ ConditionRank(card.selected[1].condition) = Min(RanksOf(printings))
              /\ card.selected[1].price = Min(PricesOfRank(printings, Min(RanksOf(printings))))

\* C12 as stated: in what getCheapestForEach returns, the selected printing
\* of a name is the first printing of its entry and has the lowest price of
\* all in-stock variants whose lower-cased card name is the normalized name;
\* selected is null exactly when there is no such variant.
C12_CheapestSelected ==
  lastRead # Null /\ lastRead[1].kind = "cheapest" /\ ~lastRead[1].threw =>
    \A k \in 1..Len(lastRead[1].results) :
      LET card == lastRead[1].results[k]
          rows == MatchingRows(lastRead[1].view,
                               <<toLowerCase(trim(lastRead[1].input[k]))>>)
      IN /\ card.selected = Null <=> rows = {}
         /\ rows # {} =>
              /\ card.selected[1] = card.printings[1][1]
              /\ card.selected[1].price = Min({r.price : r \in rows})

(***************************************************************************)
(* The access token cache (shopify-auth.js)                                *)
(***************************************************************************)

\* milliseconds before the cached expiry at which the cache stops serving
safetyMargin == 60000

\* lifetime in seconds taken when the response carries no expires_in
defaultExpiresIn == 86399

\* milliseconds in a second
msPerSecond == 1000

\* the instants Date.now() takes: the last at which a token of 61 seconds
\* obtained at instant 0 is served from the cache, and the first at which it
\* is not
Instants == {0, 999, 1000}

\* expires_in of a token response: absent, zero, a second above the margin
ExpiresIns == {Null, Some(0), Some(61)}

\* a credential check that forgets the store domain
MissingCredentials_IdAndSecret(e) ==
  \/ e.SHOPIFY_CLIENT_ID \in {Null, Some(<<>>)}
  \/ e.SHOPIFY_CLIENT_SECRET \in {Null, Some(<<>>)}

\* !clientId || !clientSecret || !storeDomain: unset and empty both count
MissingCredentials(e) ==
  \/ e.SHOPIFY_CLIENT_ID \in {Null, Some(<<>>)}
  \/ e.SHOPIFY_CLIENT_SECRET \in {Null, Some(<<>>)}
  \/ e.SHOPIFY_STORE_DOMAIN \in {Null, Some(<<>>)}

\* a cache test without the safety margin
CacheValid_NoMargin(token, expiresAt, now) ==
  token # Null /\ now < expiresAt

\* cachedToken && Date.now() < tokenExpiresAt - 60000
CacheValid(token, expiresAt, now) ==
  token # Null /\ now < expiresAt - safetyMargin

\* data.expires_in || 86399: absent and zero both give the default
ExpiresInOr(expires_in) ==
  IF expires_in = Null \/ expires_in = Some(0) THEN defaultExpiresIn ELSE expires_in[1]

\* Date.now() + (data.expires_in || 86399) * 1000
ExpiryOf(now, expires_in) == now + ExpiresInOr(expires_in) * msPerSecond

\* what a call saw when it tested the cache
Seen == [token |-> cachedToken, expiresAt |-> tokenExpiresAt, now |-> clock, env |-> env]

\* getAccessToken up to its first await: the cache test, the credential
\* check, the exchange request
getAccessToken(c) ==
  /\ tokenCalls[c].pc = "idle"
  /\ IF CacheValid(cachedToken, tokenExpiresAt, clock)
       THEN /\ tokenCalls' = [tokenCalls EXCEPT ![c] =
                 [@ EXCEPT !.pc = "returned", !.result = cachedToken,
                           !.fromCache = TRUE, !.seen = Some(Seen)]]
            /\ UNCHANGED exchanges
       ELSE IF MissingCredentials(env)
         THEN /\ tokenCalls' = [tokenCalls EXCEPT ![c] =
                   [@ EXCEPT !.pc = "threw", !.error = "configuration",
                             !.seen = Some(Seen)]]
              /\ UNCHANGED exchanges
         ELSE /\ exchanges < MaxExchanges
              /\ exchanges' = exchanges + 1
              /\ tokenCalls' = [tokenCalls EXCEPT ![c] =
                   [@ EXCEPT !.pc = "exchanging", !.sent = exchanges + 1,
                             !.seen = Some(Seen)]]
  /\ UNCHANGED <<cachedToken, tokenExpiresAt, clock, env, lastExchange>>
  /\ UNCHANGED <<syncVars, fetchCall, deckCall, apiCall>>

\* the exchange request fails in transit: fetch rejects
ExchangeFails(c) ==
  /\ tokenCalls[c].pc = "exchanging"
  /\ tokenCalls' = [tokenCalls EXCEPT ![c] =
       [@ EXCEPT !.pc = "threw", !.error = "transport",
                 !.response = Some([ok |-> FALSE, at |-> clock])]]
  /\ UNCHANGED <<cachedToken, tokenExpiresAt, clock, env, exchanges, lastExchange>>
  /\ UNCHANGED <<syncVars, fetchCall, deckCall, apiCall>>

\* the exchange is answered with a status that is not a success
ExchangeRefused(c) ==
  /\ tokenCalls[c].pc = "exchanging"
  /\ tokenCalls' = [tokenCalls EXCEPT ![c] =
       [@ EXCEPT !.pc = "threw", !.error = "exchange",
                 !.response = Some([ok |-> FALSE, at |-> clock])]]
  /\ UNCHANGED <<cachedToken, tokenExpiresAt, clock, env, exchanges, lastExchange>>
  /\ UNCHANGED <<syncVars, fetchCall, deckCall, apiCall>>

\* a grant whose expiry is only ever moved later, whatever the token
ExchangeGranted_ExpiryOnlyLater(c) ==
  /\ tokenCalls[c].pc = "exchanging"
  /\ \E expires_in \in ExpiresIns :
       LET data == [ok |-> TRUE, access_token |-> tokenCalls[c].sent,
                    expires_in |-> expires_in, at |-> clock]
       IN /\ cachedToken' = Some(data.access_token)
          /\ tokenExpiresAt' = IF ExpiryOf(clock, data.expires_in) > tokenExpiresAt
                                THEN ExpiryOf(clock, data.expires_in) ELSE tokenExpiresAt
          /\ lastExchange' = Some(data)
          /\ tokenCalls' = [tokenCalls EXCEPT ![c] =
               [@ EXCEPT !.pc = "returned", !.result = cachedToken',
                         !.response = Some(data)]]
  /\ UNCHANGED <<clock, env, exchanges>>
  /\ UNCHANGED <<syncVars, fetchCall, deckCall, apiCall>>

\* the exchange is answered with a token: the token of request n is named n
ExchangeGranted(c) ==
  /\ tokenCalls[c].pc = "exchanging"
  /\ \E expires_in \in ExpiresIns :
       LET data == [ok |-> TRUE, access_token |-> tokenCalls[c].sent,
                    expires_in |-> expires_in, at |-> clock]
       IN /\ cachedToken' = Some(data.access_token)
          /\ tokenExpiresAt' = ExpiryOf(clock, data.expires_in)
          /\ lastExchange' = Some(data)
          /\ tokenCalls' = [tokenCalls EXCEPT ![c] =
               [@ EXCEPT !.pc = "returned", !.result = cachedToken',
                         !.response = Some(data)]]
  /\ UNCHANGED <<clock, env, exchanges>>
  /\ UNCHANGED <<syncVars, fetchCall, deckCall, apiCall>>

\* the caller takes the outcome; it may call again
TokenTaken(c) ==
  /\ tokenCalls[c].pc \in {"returned", "threw"}
  /\ tokenCalls' = [tokenCalls EXCEPT ![c] = NoTokenCall]
  /\ UNCHANGED <<cachedToken, tokenExpiresAt, clock, env, exchanges, lastExchange>>
  /\ UNCHANGED <<syncVars, fetchCall, deckCall, apiCall>>

\* time passes
Tick ==
  /\ \E now \in Instants : now > clock /\ clock' = now
  /\ UNCHANGED <<cachedToken, tokenExpiresAt, env, tokenCalls, exchanges, lastExchange>>
  /\ UNCHANGED <<syncVars, fetchCall, deckCall, apiCall>>

\* the environment of the process is set: the three credentials are read
\* from process.env at every call
SetEnv ==
  /\ \E e \in Envs : e # env /\ env' = e
  /\ UNCHANGED <<cachedToken, tokenExpiresAt, clock, tokenCalls, exchanges, lastExchange>>
  /\ UNCHANGED <<syncVars, fetchCall, deckCall, apiCall>>

\* no sync has been invoked and the store is empty
SyncAtRest ==
  /\ store = EmptyTables
  /\ sync_log = <<>>
  /\ inv = [i \in Invocations |-> Idle]
  /\ started = 0
  /\ upstream = <<>>
  /\ lastRead = Null
  /\ boundaries = {EmptyTables}
  /\ prev = Null

InitAuth ==
  /\ ColdAuth
  /\ clock = 0
  /\ env \in Envs
  /\ SyncAtRest
  /\ fetchCall = Null
  /\ deckCall = Null
  /\ apiCall = Null

NextAuth ==
  \/ \E c \in Callers : getAccessToken(c)
  \/ \E c \in Callers : ExchangeFails(c)
  \/ \E c \in Callers : ExchangeRefused(c)
  \/ \E c \in Callers : ExchangeGranted(c)
  \/ \E c \in Callers : TokenTaken(c)
  \/ Tick
  \/ SetEnv

SpecAuth == InitAuth /\ [][NextAuth]_vars

\* a call that has ended
TokenCallEnded(c) == tokenCalls[c].pc \in {"returned", "threw"}

\* the cache test of call c, on what the call saw
SawValid(c) ==
  LET seen == tokenCalls[c].seen[1]
  IN seen.token # Null /\ seen.now < seen.expiresAt - safetyMargin

\* call c performed an exchange, overwrote the cache with the response and
\* returned the new token
ExchangedAndReturned(c) ==
  LET call == tokenCalls[c] IN
  /\ call.pc = "returned"
  /\ call.sent > 0
  /\ call.response # Null /\ call.response[1].ok
  /\ call.result = Some(call.response[1].access_token)
  /\ call.response[1].access_token = call.sent

\* a credential of e is absent: unset or empty
AnyCredentialAbsent(e) == \E k \in DOMAIN e : e[k] = Null \/ e[k] = Some(<<>>)

\* C13 as stated: a call returns the cached token without an exchange
\* exactly when a token is cached and now is before the expiry less the
\* margin; in every other case it performs an exchange, overwrites the
\* cache with the response and returns the new token.
C13_CacheOrExchange ==
  \A c \in Callers :
    TokenCallEnded(c) =>
      IF SawValid(c)
        THEN /\ tokenCalls[c].pc = "returned"
             /\ tokenCalls[c].fromCache
             /\ tokenCalls[c].sent = 0
             /\ tokenCalls[c].result = tokenCalls[c].seen[1].token
        ELSE /\ ~tokenCalls[c].fromCache
             /\ ExchangedAndReturned(c)

\* what every ended call did: served from the cache exactly when it saw a
\* token with more than the margin left; otherwise an exchange when the
\* credentials were present, whose grant it returned and whose failure it
\* threw, and the configuration error when one was absent
EndedCallsAgree ==
  \A c \in Callers :
    TokenCallEnded(c) =>
      LET call == tokenCalls[c]
          seen == call.seen[1]
      IN IF SawValid(c)
           THEN /\ call.pc = "returned"
                /\ call.fromCache
                /\ call.sent = 0
                /\ call.result = seen.token
                /\ seen.expiresAt - seen.now > safetyMargin
           ELSE /\ ~call.fromCache
                /\ IF AnyCredentialAbsent(seen.env)
                     THEN call.pc = "threw" /\ call.error = "configuration" /\ call.sent = 0
                     ELSE /\ call.sent > 0
                          /\ call.response # Null
                          /\ IF call.response[1].ok
                               THEN ExchangedAndReturned(c)
                               ELSE call.pc = "threw" /\ call.result = Null

\* a step that ends an exchange with a grant leaves in the cache the token
\* of that response and the instant of the step plus the lifetime of the
\* response, 86399 s when it names none; one that ends it with a failure
\* leaves the cache as it was
CacheOverwritten ==
  [][\A c \in Callers :
       tokenCalls[c].pc = "exchanging" /\ tokenCalls'[c].pc # "exchanging" =>
         IF tokenCalls'[c].pc = "returned"
           THEN /\ cachedToken' = tokenCalls'[c].result
                /\ cachedToken' = Some(tokenCalls[c].sent)
                /\ tokenExpiresAt' =
                     clock + msPerSecond *
                       (IF tokenCalls'[c].response[1].expires_in \in {Null, Some(0)}
                          THEN defaultExpiresIn
                          ELSE tokenCalls'[c].response[1].expires_in[1])
           ELSE cachedToken' = cachedToken /\ tokenExpiresAt' = tokenExpiresAt]_vars

\* C13 amended: the cached token is returned without an exchange exactly
\* when a token is cached and now is before the expiry less 60000 ms, and
\* such a token has more than the margin left.  In every other case with
\* the three credentials present the call sends one exchange; when it is
\* granted the call overwrites the cached token and expiry with the
\* response (86399 s when it names no lifetime) and returns the new token,
\* when it fails or is refused the call throws and leaves the cache as it
\* was.  With a credential absent the call throws without an exchange.
C13_CacheOrExchangeAttempt == []EndedCallsAgree /\ CacheOverwritten

\* a call was served from a cache filled by an earlier exchange, and
\* another call has obtained a new token after the cache ran out
C13_Witness ==
  \E c, d \in Callers :
    /\ tokenCalls[c].pc = "returned" /\ tokenCalls[c].fromCache
    /\ tokenCalls[c].seen[1].now > 0
    /\ tokenCalls[d].pc = "returned" /\ ~tokenCalls[d].fromCache
    /\ tokenCalls[d].seen[1].token # Null

C21_NoDeduplication ==
  /\ \A c \in Callers :
       LET call == tokenCalls[c] IN
       /\ call.seen # Null /\ ~SawValid(c) /\ ~AnyCredentialAbsent(call.seen[1].env)
            => call.sent > 0
       /\ call.pc = "returned" /\ ~call.fromCache
            => call.result = Some(call.sent) /\ call.response[1].access_token = call.sent
       /\ \A d \in Callers \ {c} : call.sent > 0 => tokenCalls[d].sent # call.sent
  /\ IF lastExchange = Null
       THEN cachedToken = Null /\ tokenExpiresAt = 0
       ELSE /\ cachedToken = Some(lastExchange[1].access_token)
            /\ tokenExpiresAt =
                 lastExchange[1].at + msPerSecond *
                   (IF lastExchange[1].expires_in \in {Null, Some(0)}
                      THEN defaultExpiresIn ELSE lastExchange[1].expires_in[1])

\* two calls found the cache empty and exchanged at the same time; each
\* returned its own token, and the cache holds the token of the request sent
\* first, whose response came last, with that response's lifetime
C21_BothExchanged ==
  \E c, d \in Callers :
    /\ tokenCalls[c].pc = "returned" /\ tokenCalls[d].pc = "returned"
    /\ tokenCalls[c].seen[1].token = Null /\ tokenCalls[d].seen[1].token = Null
    /\ tokenCalls[c].sent = 1 /\ tokenCalls[d].sent = 2
    /\ tokenCalls[c].result = Some(1) /\ tokenCalls[d].result = Some(2)
    /\ cachedToken = Some(1)
    /\ tokenCalls[c].response[1].expires_in = Some(61)
    /\ tokenCalls[d].response[1].expires_in = Null

(***************************************************************************)
(* fetchAllProducts and shopifyGraphQL                                     *)
(***************************************************************************)

\* pages the upstream serves to one fetch
MaxPages == 3

\* the nodes a page may carry
PageNodes == {<<>>, <<RawA>>, <<RawB>>, <<RawA, RawB>>}

\* the ways a page request fails: fetch rejects, the status is not a
\* success, the body carries an errors list
PageFailures == {"page transport", "page status", "graphql errors"}

\* fetchAllProducts not yet called
NoFetch ==
  [pc |-> "idle", allProducts |-> <<>>, hasNextPage |-> TRUE, cursor |-> Null,
   pageCount |-> 0, result |-> Null, error |-> "none",
   \* history, read by the properties only
   requests |-> <<>>, served |-> <<>>]

\* a fetch that swallows the failure and returns what it has
PageFailed_ReturnsPartial(call, error) ==
  [call EXCEPT !.pc = "returned", !.result = Some(call.allProducts)]

\* an error thrown in the loop leaves fetchAllProducts: nothing is returned
PageFailed(call, error) ==
  [call EXCEPT !.pc = "threw", !.error = error]

\* the loop body after a page arrived: push the nodes, take pageInfo
PageTaken(call, page) ==
  LET next == [call EXCEPT !.allProducts = @ \o page.nodes,
                           !.hasNextPage = page.hasNextPage,
                           !.cursor = page.endCursor,
                           !.served = Append(@, page)]
  IN IF page.hasNextPage
       THEN [next EXCEPT !.pc = "sleeping"]
       ELSE [next EXCEPT !.pc = "returned", !.result = Some(next.allProducts)]

\* fetchAllProducts is called, or its loop comes round after the 500 ms
\* pause: pageCount++ and shopifyGraphQL asks for the access token
LoopPage ==
  /\ fetchCall.pc \in {"idle", "sleeping"}
  /\ fetchCall.hasNextPage
  /\ tokenCalls[1].pc = "idle"
  /\ fetchCall' = [fetchCall EXCEPT !.pc = "token", !.pageCount = @ + 1]
  /\ UNCHANGED <<syncVars, authVars, deckCall, apiCall>>

\* getAccessToken of the page under way
PageToken ==
  /\ fetchCall.pc = "token"
  /\ \/ getAccessToken(1)
     \/ ExchangeFails(1)
     \/ ExchangeRefused(1)
     \/ ExchangeGranted(1)

\* getAccessToken threw: shopifyGraphQL and fetchAllProducts throw with it
TokenThrew ==
  /\ fetchCall.pc = "token"
  /\ tokenCalls[1].pc = "threw"
  /\ fetchCall' = PageFailed(fetchCall, tokenCalls[1].error)
  /\ tokenCalls' = [tokenCalls EXCEPT ![1] = NoTokenCall]
  /\ UNCHANGED <<cachedToken, tokenExpiresAt, clock, env, exchanges, lastExchange>>
  /\ UNCHANGED <<syncVars, deckCall, apiCall>>

\* shopifyGraphQL sends the page request with the token and the cursor
PageRequest ==
  /\ fetchCall.pc = "token"
  /\ tokenCalls[1].pc = "returned"
  /\ fetchCall' = [fetchCall EXCEPT !.pc = "requesting",
                                    !.requests = Append(@, fetchCall.cursor)]
  /\ tokenCalls' = [tokenCalls EXCEPT ![1] = NoTokenCall]
  /\ UNCHANGED <<cachedToken, tokenExpiresAt, clock, env, exchanges, lastExchange>>
  /\ UNCHANGED <<syncVars, deckCall, apiCall>>

\* the page request fails
PageFails ==
  /\ fetchCall.pc = "requesting"
  /\ \E error \in PageFailures : fetchCall' = PageFailed(fetchCall, error)
  /\ UNCHANGED <<syncVars, authVars, deckCall, apiCall>>

\* the page arrives; the upstream numbers its cursors by page and ends the
\* catalog by page MaxPages
PageArrives ==
  /\ fetchCall.pc = "requesting"
  /\ \E nodes \in PageNodes, more \in BOOLEAN :
       /\ more => fetchCall.pageCount < MaxPages
       /\ fetchCall' = PageTaken(fetchCall,
            [nodes |-> nodes, hasNextPage |-> more,
             endCursor |-> Some(fetchCall.pageCount)])
  /\ UNCHANGED <<syncVars, authVars, deckCall, apiCall>>

InitFetch ==
  /\ ColdAuth
  /\ clock = 0
  /\ env \in Envs
  /\ SyncAtRest
  /\ fetchCall = NoFetch
  /\ deckCall = Null
  /\ apiCall = Null

NextFetch ==
  \/ LoopPage
  \/ PageToken
  \/ TokenThrew
  \/ PageRequest
  \/ PageFails
  \/ PageArrives
  \/ Tick

SpecFetch == InitFetch /\ [][NextFetch]_vars

RECURSIVE NodesOf(_)
\* the nodes of the pages, in page order
NodesOf(pages) ==
  IF pages = <<>> THEN <<>> ELSE NodesOf(SubSeq(pages, 1, Len(pages) - 1)) \o pages[Len(pages)].nodes

\* C15: fetchAllProducts returns the nodes, in page order, of every page up
\* to and including the first page without a further page, or fails and
\* returns nothing; after a failed page request no later page is requested.
C15_AllOrNothing ==
  LET call == fetchCall IN
  /\ call.pc = "returned" =>
       /\ call.result = Some(NodesOf(call.served))
       /\ Len(call.served) > 0
       /\ ~call.served[Len(call.served)].hasNextPage
       /\ \A k \in 1..(Len(call.served) - 1) : call.served[k].hasNextPage
       /\ Len(call.requests) = Len(call.served)
  /\ call.pc = "threw" =>
       /\ call.result = Null
       /\ Len(call.requests) \in {Len(call.served), Len(call.served) + 1}
       /\ call.error \in PageFailures <=> Len(call.requests) = Len(call.served) + 1
  /\ call.pc # "returned" => call.result = Null
  /\ \A k \in 1..Len(call.requests) :
       call.requests[k] = IF k = 1 THEN Null ELSE call.served[k - 1].endCursor

\* a fetch failed on its second page request after a first page with nodes
C15_FailedOnSecondPage ==
  /\ fetchCall.pc = "threw"
  /\ fetchCall.error = "graphql errors"
  /\ Len(fetchCall.requests) = 2
  /\ fetchCall.allProducts # <<>>

(***************************************************************************)
(* parseTextDeckList                                                       *)
(***************************************************************************)

\* lines in a deck text
MaxLines == 3

\* length of the lines that are enumerated in full
MaxLineLen == 2

\* the characters of the enumerated lines
DeckChars == {"0", "1", "x", " ", "A", "(", ")", "/", "#"}

RECURSIVE SplitLines(_)
\* text.split('\n')
SplitLines(text) ==
  IF \A k \in 1..Len(text) : text[k] # "\n" THEN <<text>>
  ELSE LET at == CHOOSE k \in 1..Len(text) :
                   text[k] = "\n" /\ \A j \in 1..(k - 1) : text[j] # "\n"
       IN <<SubSeq(text, 1, at - 1)>> \o SplitLines(SubSeq(text, at + 1, Len(text)))

\* the words of the header pattern, lower-cased (the pattern ignores case)
HeaderWords ==
  {<<"d","e","c","k">>, <<"s","i","d","e","b","o","a","r","d">>,
   <<"c","o","m","m","a","n","d","e","r">>, <<"c","o","m","p","a","n","i","o","n">>,
   <<"m","a","y","b","e","b","o","a","r","d">>, <<"a","b","o","u","t">>,
   <<"c","o","m","m","a","n","d","e","r",":">>, <<"s","i","d","e","b","o","a","r","d",":">>,
   <<"m","a","i","n","b","o","a","r","d",":">>}

\* line.startsWith('//') || line.startsWith('#') || the header pattern
IsHeader(line) ==
  \/ Len(line) >= 2 /\ line[1] = "/" /\ line[2] = "/"
  \/ Len(line) >= 1 /\ line[1] = "#"
  \/ toLowerCase(line) \in HeaderWords

\* \w: a letter, a digit or the underscore
IsWord(c) == IsDigit(c) \/ toLowerChar(c) # c \/ (\E i \in 1..26 : LowerChars[i] = c) \/ c = "_"

\* number of digits at the start of s
LeadingDigits(s) ==
  IF \A i \in 1..Len(s) : IsDigit(s[i]) THEN Len(s)
  ELSE (CHOOSE i \in 1..Len(s) : ~IsDigit(s[i]) /\ \A j \in 1..(i-1) : IsDigit(s[j])) - 1

\* ^(\d+)\s*x?\s+ on a trimmed line: the digits, and where the name starts.
\* The x is taken when white space follows it; otherwise the last white
\* space before the name is the \s+.
QuantityPrefix(line) ==
  LET d     == LeadingDigits(line)
      rest  == SubSeq(line, d + 1, Len(line))
      a     == LeadingSpaces(rest)
      after == SubSeq(rest, a + 1, Len(rest))
      b     == IF after = <<>> THEN 0 ELSE LeadingSpaces(Tail(after))
  IN IF d = 0 THEN Null
     ELSE IF after # <<>> /\ toLowerChar(after[1]) = "x" /\ b >= 1 /\ Len(after) > 1 + b
       THEN Some([digits |-> SubSeq(line, 1, d), from |-> d + a + 1 + b + 1])
     ELSE IF a >= 1 /\ after # <<>>
       THEN Some([digits |-> SubSeq(line, 1, d), from |-> d + a + 1])
     ELSE Null

\* (?:\s*[\(\[][\w\d]+[\)\]]) in full
IsSetCode(s) ==
  LET open == LeadingSpaces(s) + 1 IN
  /\ Len(s) >= open + 2
  /\ s[open] \in {"(", "["}
  /\ s[Len(s)] \in {")", "]"}
  /\ \A j \in (open + 1)..(Len(s) - 1) : IsWord(s[j])

\* (?:\s+\*\w+\*) in full
IsStarTag(s) ==
  LET open == LeadingSpaces(s) + 1 IN
  /\ open >= 2
  /\ Len(s) >= open + 2
  /\ s[open] = "*"
  /\ s[Len(s)] = "*"
  /\ \A j \in (open + 1)..(Len(s) - 1) : IsWord(s[j])

\* (?:\s+#\S+) in full
IsHashTag(s) ==
  LET open == LeadingSpaces(s) + 1 IN
  /\ open >= 2
  /\ Len(s) >= open + 1
  /\ s[open] = "#"
  /\ \A j \in (open + 1)..Len(s) : ~IsSpace(s[j])

\* the three optional groups up to the end of the line
TailMatches(s) ==
  \E i \in 0..Len(s), j \in 0..Len(s) :
    /\ i <= j
    /\ i = 0 \/ IsSetCode(SubSeq(s, 1, i))
    /\ j = i \/ IsStarTag(SubSeq(s, i + 1, j))
    /\ j = Len(s) \/ IsHashTag(SubSeq(s, j + 1, Len(s)))

\* line.match(...): the quantity digits and the lazy name group, which is
\* the shortest non-empty text after which the tail matches
LineMatch(line) ==
  LET prefix == QuantityPrefix(line) IN
  IF prefix = Null THEN Null
  ELSE LET from == prefix[1].from
           n    == Len(line)
           Cuts == {k \in from..n : TailMatches(SubSeq(line, k + 1, n))}
           k    == CHOOSE c \in Cuts : \A e \in Cuts : c <= e
       IN Some([quantity |-> prefix[1].digits, name |-> SubSeq(line, from, k)])

\* cardName.includes(' // ') ? cardName.split(' // ')[0].trim() : cardName
FrontFace(cardName) ==
  LET At == {k \in 1..(Len(cardName) - 3) :
               SubSeq(cardName, k, k + 3) = <<" ", "/", "/", " ">>}
  IN IF At = {} THEN cardName
     ELSE trim(SubSeq(cardName, 1, (CHOOSE k \in At : \A e \in At : k <= e) - 1))

\* cardName.replace(/\s*\(\d+\)\s*$/, '').trim()
StripCollector(cardName) ==
  LET t == Len(cardName) - TrailingSpaces(cardName)
      d == IF t >= 1 /\ cardName[t] = ")" THEN TrailingDigits(SubSeq(cardName, 1, t - 1)) ELSE 0
  IN IF d >= 1 /\ t - 1 - d >= 1 /\ cardName[t - 1 - d] = "("
       THEN trim(SubSeq(cardName, 1, t - 2 - d))
       ELSE trim(cardName)

\* a card is pushed whatever the quantity
Emits_AnyQuantity(cardName, quantity) == cardName # <<>>

\* if (cardName && quantity > 0)
Emits(cardName, quantity) == cardName # <<>> /\ quantity > 0

\* the error of a line, numbered from 0
ParseError_FromZero(i, line, reason) == [line |-> i, text |-> line, reason |-> reason]

\* errors.push({ line: i + 1, text: line, reason })
ParseError(i, line, reason) == [line |-> i + 1, text |-> line, reason |-> reason]

\* the loop body for lines[i], i counted from 0: what it pushes
ParseLine(raw, i) ==
  LET line  == trim(raw)
      match == LineMatch(line)
      none  == [cards |-> <<>>, errors |-> <<>>]
  IN IF line = <<>> \/ IsHeader(line) THEN none
     ELSE IF match # Null
       THEN LET quantity == parseInt(match[1].quantity)
                cardName == StripCollector(FrontFace(trim(match[1].name)))
            IN IF Emits(cardName, quantity)
                 THEN [none EXCEPT !.cards = <<[name |-> cardName, quantity |-> quantity]>>]
                 ELSE [none EXCEPT !.errors = <<ParseError(i, line, "invalid")>>]
     ELSE IF Len(line) > 1 /\ ~(\A k \in 1..Len(line) : IsDigit(line[k]))
       THEN [none EXCEPT !.cards = <<[name |-> FrontFace(line), quantity |-> 1]>>]
       ELSE [none EXCEPT !.errors = <<ParseError(i, line, "unparsed")>>]

RECURSIVE ParseLines(_, _)
\* the loop over lines[0..n-1]
ParseLines(lines, n) ==
  IF n = 0 THEN [cards |-> <<>>, errors |-> <<>>]
  ELSE LET before == ParseLines(lines, n - 1)
           this   == ParseLine(lines[n], n - 1)
       IN [cards |-> before.cards \o this.cards, errors |-> before.errors \o this.errors]

parseTextDeckList(text) == ParseLines(SplitLines(text), Len(SplitLines(text)))

\* every line over DeckChars of up to MaxLineLen characters
ShortLines == UNION {[1..n -> DeckChars] : n \in 0..MaxLineLen}

\* lines of a deck list as they are written
SampleLines ==
  {<<"0"," ","A">>, <<"1"," ","A">>, <<"1","x"," ","A">>, <<"1"," ","x"," ","A">>,
   <<"1"," ","x">>, <<"1"," ","x","A">>, <<"0","x">>, <<"0","0"," ","A">>,
   <<"1","0"," ","A">>, <<"2"," ","A"," ","(","1",")">>, <<"1"," ","(","1",")">>,
   <<"1"," ","A"," ","(","S",")"," ","(","1",")">>,
   <<"1"," ","A"," ","/","/"," ","B">>, <<"1"," ","(","1",")"," ","/","/"," ","B">>,
   <<"A"," ","/","/"," ","B">>, <<"(","1",")">>, <<"A"," ","(","1",")">>,
   <<"1"," ","A"," ","[","S","]">>, <<"1"," ","A"," ","*","F","*">>,
   <<"1"," ","A"," ","#","1">>, <<"1"," ","A"," ","(","S",")"," ","*","F","*"," ","#","1">>,
   <<"D","e","c","k">>, <<"S","I","D","E","B","O","A","R","D",":">>,
   <<"/","/"," ","A">>, <<"#"," ","A">>, <<" ","1"," ","A"," ">>}

\* the lines of the texts of several lines
ListLines == SampleLines \cup {<<>>, <<" ">>}

RECURSIVE JoinLines(_)
\* the lines with a line feed between them
JoinLines(lines) ==
  IF Len(lines) = 1 THEN lines[1]
  ELSE JoinLines(SubSeq(lines, 1, Len(lines) - 1)) \o <<"\n">> \o lines[Len(lines)]

\* the texts: every short line alone, and up to MaxLines written lines
DeckTexts ==
  ShortLines \cup
  {JoinLines(lines) : lines \in UNION {[1..n -> ListLines] : n \in 1..MaxLines}}

\* parseTextDeckList is applied to the text
ParseDeck ==
  /\ deckCall.result = Null
  /\ deckCall' = [deckCall EXCEPT !.result = Some(parseTextDeckList(deckCall.text))]
  /\ UNCHANGED <<syncVars, authVars, fetchCall, apiCall>>

InitDeck ==
  /\ ColdAuth
  /\ clock = 0
  /\ env = FullEnv
  /\ SyncAtRest
  /\ fetchCall = Null
  /\ apiCall = Null
  /\ deckCall \in [text : DeckTexts, result : {Null}]

SpecDeck == InitDeck /\ [][ParseDeck]_vars

\* the numbers, from 1, of the lines that are neither blank nor a header
CountedLines(text) ==
  LET lines == SplitLines(text)
  IN {k \in 1..Len(lines) : trim(lines[k]) # <<>> /\ ~IsHeader(trim(lines[k]))}

\* the line numbers the errors carry
ErrorLines(result) == {result.errors[k].line : k \in 1..Len(result.errors)}

\* the j-th smallest number of S
NthOf(S, j) == CHOOSE x \in S : Cardinality({y \in S : y < x}) = j - 1

\* C16: parseTextDeckList returns for every text; every line that is neither
\* blank nor a header contributes exactly one entry to exactly one of cards
\* and errors, in line order, an error carrying the 1-based number of its
\* line; blank, header and comment lines contribute to neither.
C16_EveryLineOnce ==
  deckCall # Null /\ deckCall.result # Null =>
    LET result  == deckCall.result[1]
        lines   == SplitLines(deckCall.text)
        Counted == CountedLines(deckCall.text)
        Carded  == Counted \ ErrorLines(result)
    IN /\ ErrorLines(result) \subseteq Counted
       /\ \A a, b \in 1..Len(result.errors) :
            a < b => result.errors[a].line < result.errors[b].line
       /\ \A k \in 1..Len(result.errors) :
            result.errors[k].text = trim(lines[result.errors[k].line])
       /\ Len(result.cards) = Cardinality(Carded)
       /\ \A j \in 1..Len(result.cards) :
            ParseLine(lines[NthOf(Carded, j)], NthOf(Carded, j) - 1).cards
              = <<result.cards[j]>>

\* a text of three lines gave a card for its first line, nothing for its
\* header line and an error numbered 3 for its third
C16_CardHeaderError ==
  /\ deckCall # Null /\ deckCall.result # Null
  /\ CountedLines(deckCall.text) = {1, 3}
  /\ Len(deckCall.result[1].cards) = 1
  /\ ErrorLines(deckCall.result[1]) = {3}
  /\ IsHeader(trim(SplitLines(deckCall.text)[2]))

\* C17: every emitted card has an integer quantity of at least 1 and a
\* non-empty name; a line whose quantity is zero, or whose name is empty
\* once the alternate face and the trailing collector number are stripped,
\* yields no card and exactly one error.
C17_CardsWellFormed ==
  deckCall # Null /\ deckCall.result # Null =>
    LET result == deckCall.result[1]
        lines  == SplitLines(deckCall.text)
    IN /\ \A j \in 1..Len(result.cards) :
            /\ result.cards[j].quantity \in Nat \ {0}
            /\ result.cards[j].name # <<>>
       /\ \A k \in CountedLines(deckCall.text) :
            LET match == LineMatch(trim(lines[k])) IN
            (/\ match # Null
             /\ \/ parseInt(match[1].quantity) = 0
                \/ StripCollector(FrontFace(trim(match[1].name))) = <<>>)
            => /\ Cardinality({e \in 1..Len(result.errors) : result.errors[e].line = k}) = 1
               /\ Len(result.cards) =
                    Cardinality(CountedLines(deckCall.text) \ ErrorLines(result)) 

\* a text gave an error for "0 A", an error for "1 (1) // B" whose name is
\* empty once stripped, and a card
C17_ZeroAndEmptyRejected ==
  /\ deckCall # Null /\ deckCall.result # Null
  /\ Len(deckCall.result[1].cards) = 1
  /\ \E a, b \in 1..Len(deckCall.result[1].errors) :
       /\ deckCall.result[1].errors[a].text = <<"0"," ","A">>
       /\ deckCall.result[1].errors[b].text = <<"1"," ","(","1",")"," ","/","/"," ","B">>

(***************************************************************************)
(* The API handlers (routes/api.js): which status answers which failure    *)
(***************************************************************************)

\* requests the server handles at a time
MaxRequests == 2

Routes ==
  {"deck/parse", "deck/match", "deck/import", "deck/auto-select", "search",
   "sync/status", "sync/trigger", "health"}

\* what a request carries, by route: the input field, the cards array, q
InputsOf(route) ==
  IF route \in {"deck/parse", "deck/import"}
    THEN {"missing", "deck text", "deck url", "url without id"}
  ELSE IF route \in {"deck/match", "deck/auto-select"}
    THEN {"missing", "names", "null element"}
  ELSE IF route = "search" THEN {"short", "term"}
  ELSE {"none"}

\* no request
NoRequest ==
  [pc |-> "idle", route |-> "none", input |-> "none", status |-> 0, message |-> FALSE,
   \* history, read by the properties only
   cause |-> "none"]

\* the status of the catch block of a route
CatchStatus(route) == IF route \in {"deck/parse", "deck/import"} THEN 400 ELSE 500

\* res.status(status).json({ error }) for a failure of the given cause
Fails(call, status, cause) ==
  [call EXCEPT !.pc = "answered", !.status = status, !.message = TRUE, !.cause = cause]

\* res.json(...)
Succeeds(call) == [call EXCEPT !.pc = "answered", !.status = 200]

\* a handler up to its first await: the check of the request, the
\* synchronous part of the parse, the start of the first query
Receive(r) ==
  /\ apiCall[r].pc = "idle"
  /\ \E route \in Routes : \E input \in InputsOf(route) :
       LET call == [NoRequest EXCEPT !.route = route, !.input = input] IN
       apiCall' = [apiCall EXCEPT ![r] =
         IF input \in {"missing", "short"} THEN Fails(call, 400, "input")
         ELSE IF input = "url without id" THEN Fails(call, CatchStatus(route), "input")
         ELSE IF input = "null element" THEN Fails(call, CatchStatus(route), "input")
         ELSE IF input = "deck url" THEN [call EXCEPT !.pc = "fetching"]
         ELSE IF route = "deck/parse" THEN Succeeds(call)
         ELSE IF route = "sync/trigger" THEN Succeeds(call)
         ELSE [call EXCEPT !.pc = "querying"]]
  /\ UNCHANGED <<syncVars, authVars, fetchCall, deckCall>>

\* the deck provider answers with the deck
ProviderServes(r) ==
  /\ apiCall[r].pc = "fetching"
  /\ apiCall' = [apiCall EXCEPT ![r] =
       IF @.route = "deck/parse" THEN Succeeds(@) ELSE [@ EXCEPT !.pc = "querying"]]
  /\ UNCHANGED <<syncVars, authVars, fetchCall, deckCall>>

\* the deck provider knows no such deck: status 404
ProviderNotFound(r) ==
  /\ apiCall[r].pc = "fetching"
  /\ apiCall' = [apiCall EXCEPT ![r] = Fails(@, CatchStatus(@.route), "input")]
  /\ UNCHANGED <<syncVars, authVars, fetchCall, deckCall>>

\* the request to the deck provider fails in transit or is answered with
\* another status that is not a success
ProviderFails(r) ==
  /\ apiCall[r].pc = "fetching"
  /\ apiCall' = [apiCall EXCEPT ![r] = Fails(@, CatchStatus(@.route), "backend")]
  /\ UNCHANGED <<syncVars, authVars, fetchCall, deckCall>>

\* the store query of the handler returns; /sync/status runs a second
\* query when the first found a row
QueryReturns(r) ==
  /\ apiCall[r].pc \in {"querying", "querying stats"}
  /\ \/ apiCall' = [apiCall EXCEPT ![r] = Succeeds(@)]
     \/ /\ apiCall[r].route = "sync/status"
        /\ apiCall[r].pc = "querying"
        /\ apiCall' = [apiCall EXCEPT ![r] = [@ EXCEPT !.pc = "querying stats"]]
  /\ UNCHANGED <<syncVars, authVars, fetchCall, deckCall>>

\* the store query rejects
QueryFails(r) ==
  /\ apiCall[r].pc \in {"querying", "querying stats"}
  /\ apiCall' = [apiCall EXCEPT ![r] = Fails(@, CatchStatus(@.route), "backend")]
  /\ UNCHANGED <<syncVars, authVars, fetchCall, deckCall>>

\* the response is sent
Answered(r) ==
  /\ apiCall[r].pc = "answered"
  /\ apiCall' = [apiCall EXCEPT ![r] = NoRequest]
  /\ UNCHANGED <<syncVars, authVars, fetchCall, deckCall>>

InitApi ==
  /\ ColdAuth
  /\ clock = 0
  /\ env = FullEnv
  /\ SyncAtRest
  /\ fetchCall = Null
  /\ deckCall = Null
  /\ apiCall = [r \in 1..MaxRequests |-> NoRequest]

NextApi ==
  \E r \in 1..MaxRequests :
    \/ Receive(r)
    \/ ProviderServes(r)
    \/ ProviderNotFound(r)
    \/ ProviderFails(r)
    \/ QueryReturns(r)
    \/ QueryFails(r)
    \/ Answered(r)

SpecApi == InitApi /\ [][NextApi]_vars

\* C18 as stated: every handler answers a caller-input problem with 400 and
\* a backend or upstream failure with 500, each with an error message; so do
\* POST /deck/parse and POST /deck/import when the deck provider or the
\* store query fails.
C18_StatusByCause ==
  \A r \in 1..MaxRequests :
    apiCall[r].pc = "answered" =>
      /\ apiCall[r].cause = "input" => apiCall[r].status = 400 /\ apiCall[r].message
      /\ apiCall[r].cause = "backend" => apiCall[r].status = 500 /\ apiCall[r].message

(***************************************************************************)
(* syncInventory over the titles the shop may send                         *)
(***************************************************************************)

\* length of an upstream product title
MaxTitleLen == 4

\* the characters of the titles
TitleChars == {"A", " ", "(", ")", "S"}

\* catalogs of one product, with two variants, under every title that is
\* not blank
TitledCatalogs ==
  {<<[RawA EXCEPT !.title = title]>> :
     title \in {t \in UNION {[1..n -> TitleChars] : n \in 1..MaxTitleLen} :
                  \E k \in 1..Len(t) : ~IsSpace(t[k])}}

\* syncInventory() is called, one invocation after the other, while the
\* shop's catalog stays as it is
StartTitled(i) ==
  /\ i = started + 1
  /\ inv[i].pc = "idle"
  /\ NoOtherSyncRunning
  /\ started' = i
  /\ inv' = [j \in Invocations |->
               IF j = i THEN [inv[j] EXCEPT !.pc = "connect", !.pre = store]
               ELSE Finished(inv[j])]
  /\ prev' = IF i > 1 /\ inv[i - 1].pc = "returned"
             THEN Some([allProducts |-> inv[i - 1].allProducts, tables |-> store])
             ELSE Null
  /\ UNCHANGED <<store, sync_log, upstream, lastRead, boundaries>>
  /\ UNCHANGED apart

InitTitles ==
  /\ AtRest
  /\ store = EmptyTables
  /\ sync_log = <<>>
  /\ inv = [i \in Invocations |-> Idle]
  /\ started = 0
  /\ upstream \in TitledCatalogs
  /\ lastRead = Null
  /\ boundaries = {store}
  /\ prev = Null

NextTitles ==
  \E i \in Invocations :
    \/ StartTitled(i) \/ Connect(i) \/ InsertLog(i) \/ FetchPage(i) \/ Begin(i)
    \/ UpsertProduct(i) \/ UpsertVariant(i) \/ DeleteStale(i) \/ Commit(i)
    \/ LogCompleted(i) \/ Rollback(i) \/ LogFailed(i)

SpecTitles == InitTitles /\ [][NextTitles]_vars

\* C19 as stated: every product row syncInventory writes has a non-empty
\* card_name, whatever the upstream title: the trimmed name part of a title
\* of the form "name (set)", otherwise the trimmed full title with a null
\* set_name.
C19_CardNameNonEmpty ==
  \A i \in Invocations :
    \A row \in store.products \cup inv[i].work.products :
      /\ row.card_name # <<>>
      /\ row.card_name = parseProductTitle(row.title).cardName
      /\ row.set_name = Null => row.card_name = trim(row.title)

(***************************************************************************)
(* Overlapping invocations of syncInventory.  Each invocation holds its    *)
(* own pooled client, so their transactions are separate; the store keeps  *)
(* a written or deleted row locked until its transaction ends.  The        *)
(* specification follows two open transactions until one of them would     *)
(* commit beside the other; what overlapping commits leave is not          *)
(* followed.                                                               *)
(***************************************************************************)

\* what the shop holds when an overlapping invocation fetches
OverlapCatalogs == {<<RawA>>, <<RawB>>}

\* syncInventory() is called by the startup, the schedule or /sync/trigger,
\* whatever the other invocations are doing
StartOverlapping(i) ==
  /\ i = started + 1
  /\ inv[i].pc = "idle"
  /\ started' = i
  /\ inv' = [inv EXCEPT ![i] = [@ EXCEPT !.pc = "connect", !.pre = store]]
  /\ upstream' \in OverlapCatalogs
  /\ UNCHANGED <<store, sync_log, lastRead, boundaries, prev>>
  /\ UNCHANGED apart

\* the key of the row that statement v of product k writes: v = 0 is the
\* product upsert, v > 0 the upsert of variant v
KeyOf(r, k, v) ==
  IF v = 0 THEN <<"product", extractNumericId(r.allProducts[k].id)>>
  ELSE <<"variant", extractNumericId(r.allProducts[k].variants[v].id)>>

\* the keys of the rows the open transaction of r has locked: the rows its
\* statements have upserted and, after its DELETE, the rows it deleted
LockedKeys(r) ==
  IF ~r.inTxn THEN {}
  ELSE LET all  == r.pc \in {"delete", "commit"} \/ (r.pc = "rollback" /\ r.failedAt = "delete")
           into == r.pc = "variant" \/ (r.pc = "rollback" /\ r.failedAt = "variant")
           Done == {kv \in UNION {{<<k, v>> : v \in 0..Len(r.allProducts[k].variants)} :
                                    k \in 1..Len(r.allProducts)} :
                      \/ all
                      \/ kv[1] < r.pi
                      \/ kv[1] = r.pi /\ into /\ kv[2] < r.vi}
       IN {KeyOf(r, kv[1], kv[2]) : kv \in Done}
            \cup (IF r.pc = "commit"
                  THEN {<<"product", Some(id)>> : id \in ProductIds(store) \ ProductIds(r.work)}
                       \cup {<<"variant", Some(id)>> : id \in VariantIds(store) \ VariantIds(r.work)}
                  ELSE {})

\* the keys of the rows the next statement of r writes or deletes
TargetKeys(r) ==
  IF r.pc = "product" THEN {KeyOf(r, r.pi, 0)}
  ELSE IF r.pc = "variant" THEN {KeyOf(r, r.pi, r.vi)}
  ELSE IF r.pc = "delete"
    THEN LET t == DeleteStaleRows(r.work, shopifyProductIds(r.allProducts))
         IN {<<"product", Some(id)>> : id \in ProductIds(r.work) \ ProductIds(t)}
              \cup {<<"variant", Some(id)>> : id \in VariantIds(r.work) \ VariantIds(t)}
  ELSE {}

\* the next statement of invocation i waits for a row lock of another
\* transaction
Blocked(i) ==
  \E j \in Invocations \ {i} :
    \E key \in TargetKeys(inv[i]) : key[2] # Null /\ key \in LockedKeys(inv[j])

\* an upsert or the DELETE of invocation i, once no lock holds it back
WriteStatement(i) ==
  /\ ~Blocked(i)
  /\ \/ UpsertProduct(i)
     \/ UpsertVariant(i)
     \/ DeleteStale(i)

\* the COMMIT of invocation i while no other transaction is open
CommitAlone(i) ==
  /\ \A j \in Invocations \ {i} : ~inv[j].inTxn
  /\ Commit(i)

InitOverlap ==
  /\ AtRest
  /\ store \in InitStores
  /\ sync_log = <<>>
  /\ inv = [i \in Invocations |-> Idle]
  /\ started = 0
  /\ upstream = <<>>
  /\ lastRead = Null
  /\ boundaries = {store}
  /\ prev = Null

NextOverlap ==
  \E i \in Invocations :
    \/ StartOverlapping(i) \/ Connect(i) \/ InsertLog(i) \/ FetchPage(i) \/ Begin(i)
    \/ WriteStatement(i) \/ CommitAlone(i)
    \/ LogCompleted(i) \/ Rollback(i) \/ LogFailed(i)

SpecOverlap == InitOverlap /\ [][NextOverlap]_vars

\* the product rows invocation i makes of its own fetch result
OwnRows(i) ==
  {ProductRowOf(inv[i].allProducts[k]) : k \in 1..Len(inv[i].allProducts)}

\* C20: nothing serialises sync invocations.  Whenever two invocations have
\* open transactions at the same time, each has a sync_log row of its own
\* in status 'running', and each transaction holds, beside the committed
\* rows, only rows made of its own fetch result.
C20_EachItsOwn ==
  \A i, j \in Invocations :
    i # j /\ inv[i].inTxn /\ inv[j].inTxn =>
      /\ inv[i].syncLogId # inv[j].syncLogId
      /\ sync_log[inv[i].syncLogId].status = "running"
      /\ sync_log[inv[j].syncLogId].status = "running"
      /\ inv[i].work.products \subseteq store.products \cup OwnRows(i)
      /\ inv[j].work.products \subseteq store.products \cup OwnRows(j)

\* two invocations with different fetch results have each a 'running' row
\* and an open transaction in which each has upserted its own product
C20_TwoOpenTransactions ==
  \E i, j \in Invocations :
    /\ i # j
    /\ inv[i].inTxn /\ inv[j].inTxn
    /\ sync_log[inv[i].syncLogId].status = "running"
    /\ sync_log[inv[j].syncLogId].status = "running"
    /\ inv[i].allProducts # inv[j].allProducts
    /\ inv[i].work.products \ store.products # {}
    /\ inv[j].work.products \ store.products # {}
    /\ inv[i].work.products \cap inv[j].work.products = store.products

=============================================================================
